---------------------------- MODULE Spec2Model ----------------------------
(***************************************************************************)
(* Shipping-schedule processor: the three carrier extractors               *)
(* (parse_cosco_pdf, parse_one_pdf, parse_sitc_excel), the aggregation in  *)
(* process_schedules / the dashboard's Start Processing handler, and the   *)
(* month filter filter_by_month.                                           *)
(*                                                                         *)
(* Text is a sequence of one-character strings, so that strip(), upper(),  *)
(* substring tests and the regular expressions of the source are computed, *)
(* not assumed.  The empty Python string is << >>.                         *)
(***************************************************************************)
EXTENDS Integers, Sequences, FiniteSets, TLC

VARIABLES
    pc,            \* position of the running function
    table,         \* parse_cosco_pdf: the table being scanned
    examined,      \* history: the values of i at which a row was read as row1
    i,             \* parse_cosco_pdf, parse_one_pdf: the scan index (0-based)
    lines,         \* parse_one_pdf: the lines of the page being scanned
    ws,            \* parse_sitc_excel: the active worksheet
    service,       \* parse_sitc_excel: service code read from A1
    ts_port,       \* parse_sitc_excel: "DIRECT" or "" read from A1
    transit_time,  \* parse_sitc_excel: transit time read from row 4
    row_idx,       \* parse_sitc_excel: the row being read (1-based, as in the source)
    schedules,     \* the extractor's result list
    cand,          \* history: every entry that reached the extractor's emission
                   \* test, with the fields extracted and what they were read from
    date_path,     \* date normalization: the code path that normalizes
    date_raw,      \* date normalization: the raw value (etd_raw / eta_raw)
    date_out,      \* date normalization: the resulting etd / eta
    caller,        \* aggregation: "process_schedules" or the Start Processing handler
    files_data,    \* aggregation: the files, in upload order
    carrier_mapping,   \* aggregation: file name -> carrier selected
    remove_duplicates, \* aggregation: the deduplication option
    file_no,       \* aggregation: position of the file loop (1-based)
    all_schedules, \* aggregation: the records gathered so far
    contrib,       \* history: the record list each file processed contributed
    invoked,       \* history: the extractors called for each file, in call order
    runs,          \* history: how each finished Start Processing run ended
    df,            \* the DataFrame (a sequence of records)
    session_state, \* app: st.session_state
    start_month,   \* filter_by_month: the start month selected
    end_month,     \* filter_by_month: the end month selected
    filtered       \* filter_by_month: the DataFrame returned

coscoVars == <<table, examined>>

oneVars == <<lines>>

sitcVars == <<ws, service, ts_port, transit_time, row_idx>>

extractVars == <<table, examined, i, lines, ws, service, ts_port, transit_time, row_idx,
                 schedules, cand>>

dateVars == <<date_path, date_raw, date_out>>

aggVars == <<caller, files_data, carrier_mapping, remove_duplicates, file_no,
             all_schedules, contrib, invoked, runs, df, session_state>>

filterVars == <<start_month, end_month, filtered>>

\* what the extractors leave alone
otherVars == <<dateVars, aggVars, filterVars>>

vars == <<pc, extractVars, dateVars, aggVars, filterVars>>

---------------------------------------------------------------------------
(* Text helpers                                                            *)

Digits == {"0", "1", "2", "3", "4", "5", "6", "7", "8", "9"}

LowerAZ == <<"a", "b", "c", "d", "e", "f", "g", "h", "i", "j", "k", "l", "m",
             "n", "o", "p", "q", "r", "s", "t", "u", "v", "w", "x", "y", "z">>

UpperAZ == <<"A", "B", "C", "D", "E", "F", "G", "H", "I", "J", "K", "L", "M",
             "N", "O", "P", "Q", "R", "S", "T", "U", "V", "W", "X", "Y", "Z">>

UpperSet == {UpperAZ[k] : k \in 1..26}

\* the characters str.strip() removes and \s matches
Whitespace == {" ", "\t", "\n"}

\* no worksheet loaded
NoSheet == [A1 |-> 0, D4 |-> 0, rows |-> << >>]

\* the variables of the date normalization, while it is not running
IdleDate == date_path = "" /\ date_raw = 0 /\ date_out = << >>

\* the variables of the aggregation, while it is not running
IdleAgg ==
    /\ caller = ""
    /\ files_data = << >>
    /\ carrier_mapping = << >>
    /\ remove_duplicates = FALSE
    /\ file_no = 0
    /\ all_schedules = << >>
    /\ contrib = << >>
    /\ invoked = << >>
    /\ runs = << >>
    /\ df = << >>
    /\ session_state = [processed |-> FALSE, df |-> << >>]

\* the variables of the month filter, while it is not running
IdleFilter == start_month = "All" /\ end_month = "All" /\ filtered = << >>

\* the variables outside the extractors, while an extractor runs
IdleOther == IdleDate /\ IdleAgg /\ IdleFilter

\* the value None of a cell; str(None) is the text "None"
None == <<"<None>">>

NoneText == <<"N", "o", "n", "e">>

\* s[k] with the source's 0-based index
Idx(s, k) == s[k + 1]

\* str(x) of a PDF table cell: a text or None
Str(x) == IF x = None THEN NoneText ELSE x

RECURSIVE LStrip(_)
LStrip(s) == IF s # << >> /\ Head(s) \in Whitespace THEN LStrip(Tail(s)) ELSE s

RECURSIVE RStrip(_)
RStrip(s) ==
    IF s # << >> /\ s[Len(s)] \in Whitespace
    THEN RStrip(SubSeq(s, 1, Len(s) - 1))
    ELSE s

\* str.strip()
Strip(s) == RStrip(LStrip(s))

UpperChar(c) ==
    IF \E k \in 1..26 : LowerAZ[k] = c
    THEN UpperAZ[CHOOSE k \in 1..26 : LowerAZ[k] = c]
    ELSE c

LowerChar(c) ==
    IF \E k \in 1..26 : UpperAZ[k] = c
    THEN LowerAZ[CHOOSE k \in 1..26 : UpperAZ[k] = c]
    ELSE c

\* str.upper(), str.lower()
Upper(s) == [k \in 1..Len(s) |-> UpperChar(s[k])]

Lower(s) == [k \in 1..Len(s) |-> LowerChar(s[k])]

\* sub occurs in s at (1-based) position p
OccursAt(s, sub, p) ==
    /\ p >= 1
    /\ p + Len(sub) - 1 <= Len(s)
    /\ SubSeq(s, p, p + Len(sub) - 1) = sub

\* the Python test  sub in s
Contains(s, sub) == \E p \in 1..(Len(s) + 1) : OccursAt(s, sub, p)

\* str.endswith(suffix)
EndsWith(s, suffix) ==
    Len(suffix) <= Len(s) /\ OccursAt(s, suffix, Len(s) - Len(suffix) + 1)

DigitAt(s, p) == p >= 1 /\ p <= Len(s) /\ s[p] \in Digits

CharAt(s, p, c) == p >= 1 /\ p <= Len(s) /\ s[p] = c

\* \s* from position p: the first position that holds no whitespace
RECURSIVE SkipWs(_, _)
SkipWs(s, p) ==
    IF p <= Len(s) /\ s[p] \in Whitespace THEN SkipWs(s, p + 1) ELSE p

\* the least element of a non-empty set of integers
Least(S) == CHOOSE x \in S : \A y \in S : x <= y

---------------------------------------------------------------------------
(* parse_cosco_pdf                                                         *)

ServiceWord == <<"S", "e", "r", "v", "i", "c", "e">>

HPX2 == <<"H", "P", "X", "2">>

\* re.search(r'2026-\s*(\d{2})-\s*(\d{2})', s) matches with "2026-" at p
CoscoDateAt(s, p) ==
    LET a == SkipWs(s, p + 5)
        b == SkipWs(s, a + 3)
    IN  /\ OccursAt(s, <<"2", "0", "2", "6", "-">>, p)
        /\ DigitAt(s, a) /\ DigitAt(s, a + 1)
        /\ CharAt(s, a + 2, "-")
        /\ DigitAt(s, b) /\ DigitAt(s, b + 1)

\* the MM-DD built from the leftmost match of the 2026 pattern, "" without one
CoscoDate(s) ==
    IF \E p \in 1..Len(s) : CoscoDateAt(s, p)
    THEN LET p == Least({q \in 1..Len(s) : CoscoDateAt(s, q)})
             a == SkipWs(s, p + 5)
             b == SkipWs(s, a + 3)
         IN  <<s[a], s[a + 1], "-", s[b], s[b + 1]>>
    ELSE << >>

\* 'Service' in str(row), for a row that is neither None nor empty
HasService(row) ==
    /\ row # << >>
    /\ \E c \in 1..Len(row) : Contains(Str(row[c]), ServiceWord)

\* header_idx (0-based), -1 for None
HeaderIdx(t) ==
    IF \E k \in 1..Len(t) : HasService(t[k])
    THEN Least({k \in 1..Len(t) : HasService(t[k])}) - 1
    ELSE -1

\* ETA of a pair: from row2[9] when row2 exists and has more than 9 cells
CoscoEta(row2) ==
    IF row2 # << >> /\ Len(row2) > 9
    THEN CoscoDate(Strip(Str(Idx(row2, 9))))
    ELSE << >>

\* a field mapping that reads the T/S port one column further left
CoscoFieldsShifted(row1, row2) ==
    [CARRIER     |-> "COSCO",
     Service     |-> Strip(Str(Idx(row1, 1))),
     Vessel      |-> Strip(Str(Idx(row1, 2))),
     Voyage      |-> Strip(Str(Idx(row1, 3))),
     ETD         |-> CoscoDate(Strip(Str(Idx(row1, 6)))),
     ETA         |-> CoscoEta(row2),
     TransitTime |-> IF Len(row1) > 12 THEN Strip(Str(Idx(row1, 12))) ELSE << >>,
     TSPort      |-> Strip(Str(Idx(row1, 7)))]

\* the fields read from a row pair whose row1 has at least 10 cells
CoscoFields(row1, row2) ==
    [CARRIER     |-> "COSCO",
     Service     |-> Strip(Str(Idx(row1, 1))),
     Vessel      |-> Strip(Str(Idx(row1, 2))),
     Voyage      |-> Strip(Str(Idx(row1, 3))),
     ETD         |-> CoscoDate(Strip(Str(Idx(row1, 6)))),
     ETA         |-> CoscoEta(row2),
     TransitTime |-> IF Len(row1) > 12 THEN Strip(Str(Idx(row1, 12))) ELSE << >>,
     TSPort      |-> Strip(Str(Idx(row1, 8)))]

\* an emission test that leaves the ETD out
EmitsWithoutEtd(r) == r.Vessel # << >> /\ r.Voyage # << >>

\* if vessel and voyage and etd
Emits(r) == r.Vessel # << >> /\ r.Voyage # << >> /\ r.ETD # << >>

\* an advance of 2 whatever the row
CoscoAdvancePairsOnly(row1) == 2

\* an advance of 1 whatever the row
CoscoAdvanceByOne(row1) == 1

\* how far one iteration of the row loop advances i
CoscoAdvance(row1) == IF row1 = << >> \/ Len(row1) < 10 THEN 1 ELSE 2

\* the row pair at i is read as a schedule entry (row1 long enough, HPX2)
CoscoCandidate(row1) ==
    /\ row1 # << >>
    /\ Len(row1) >= 10
    /\ Strip(Str(Idx(row1, 1))) = HPX2

(* Table rows the documents of the model are made of.  A row that is None  *)
(* or empty is << >>.                                                      *)
CoscoHeaderRow ==
    <<None, ServiceWord, <<"V", "e", "s", "s", "e", "l">>, <<"V", "o", "y", "a", "g", "e">>, None, None, <<"E", "T", "D">>,
      None, <<"P", "O", "D">>, <<"E", "T", "A">>, None, None, <<"T", "/", "T">>>>

CoscoExampleRow1 ==
    <<None, HPX2, <<"M", "T", "T", " ", "S", "E", "N", "A", "R", "I">>, <<"0", "2", "9", "S">>, None, None,
      <<"2", "0", "2", "6", "-", " ", "0", "2", "-", " ", "1", "5">>, None,
      <<"P", "o", "r", "t", " ", "k", "e", "l", "a", "n", "g">>, None, None, None, <<"1", "1">>>>

\* row2 of the example pair (ETA in cell 9).  Read as row1 it is an HPX2 entry
\* whose date the 2026 pattern does not match (a blank before the dash).
CoscoExampleRow2 ==
    <<None, HPX2, <<"M", "T", "T", " ", "S", "E", "N", "A", "R", "I">>, <<"0", "3", "0", "S">>, None, None,
      <<"2", "0", "2", "6", " ", "-", "0", "3", "-", "0", "1">>, None,
      <<"P", "o", "r", "t", " ", "k", "e", "l", "a", "n", "g">>, <<"2", "0", "2", "6", "-", "0", "2", "-", "2", "6">>>>

CoscoEc3Row ==
    <<None, <<"E", "C", "3">>, <<"X", "I", "N", " ", "S", "H", "A", "N", "G", "H", "A", "I">>, <<"1", "0", "1", "N">>, None, None,
      <<"2", "0", "2", "6", "-", "0", "3", "-", "0", "1">>, None,
      <<"S", "i", "n", "g", "a", "p", "o", "r", "e">>, None, None, None, <<"9">>>>

\* padded cells, a missing T/S port, no transit-time column
CoscoPaddedRow ==
    <<None, <<" ", "H", "P", "X", "2", " ">>, <<" ", "C", "S", "C", "L", " ", "A", "S", "I", "A", " ">>, <<"1", "0", "1", "N">>, None, None,
      <<"E", "T", "D", " ", "2", "0", "2", "6", "-", "0", "3", "-", " ", "0", "1", " ">>, None,
      None, <<"2", "0", "2", "6", "-", "0", "3", "-", "1", "2">>>>

CoscoShortRow == <<None, HPX2, <<"M", "T", "T", " ", "S", "E", "N", "A", "R", "I">>>>

CoscoRows ==
    {CoscoHeaderRow, CoscoExampleRow1, CoscoExampleRow2, CoscoEc3Row,
     CoscoPaddedRow, CoscoShortRow}

MaxRows == 4

SeqsUpTo(S, n) == UNION {[1..k -> S] : k \in 0..n}

CoscoTables == SeqsUpTo(CoscoRows, MaxRows)

(* A run of the model scans one table of the document.  The records the    *)
(* tables before it produced are the initial content of schedules: none,   *)
(* or the record of one earlier row pair.                                  *)
CoscoEarlierRow1 ==
    <<None, HPX2, <<"X", "I", "N", " ", "S", "H", "A", "N", "G", "H", "A", "I">>, <<"1", "0", "0", "N">>, None, None,
      <<"2", "0", "2", "6", "-", "0", "1", "-", "3", "0">>, None,
      <<"S", "i", "n", "g", "a", "p", "o", "r", "e">>, None, None, None, <<"9">>>>

CoscoEarlierRow2 ==
    <<None, None, None, None, None, None, None, None, None,
      <<"2", "0", "2", "6", "-", "0", "2", "-", "0", "8">>>>

CoscoEarlier ==
    {<< >>,
     <<[rec |-> CoscoFields(CoscoEarlierRow1, CoscoEarlierRow2),
        row1 |-> CoscoEarlierRow1, row2 |-> CoscoEarlierRow2]>>}

\* the records of the entries that passed the emission test, in order
Emitted(c) == [n \in 1..Len(c) |-> c[n].rec]

(* for table in tables (lines 30-45), up to the first test of the row loop *)
CoscoTable(t) ==
    /\ pc = "tables"
    /\ table' = t
    /\ LET h == HeaderIdx(t)
       IN  IF Len(t) < 3 \/ h = -1
           THEN /\ i' = i
                /\ pc' = "end"
           ELSE /\ i' = h + 1
                /\ pc' = IF h + 1 < Len(t) THEN "rows" ELSE "end"
    /\ UNCHANGED <<schedules, cand, examined, oneVars, sitcVars, otherVars>>

\* one iteration of  while i < len(table)
CoscoRow ==
    /\ pc = "rows"
    /\ i < Len(table)
    /\ LET row1 == Idx(table, i)
           row2 == IF i + 1 < Len(table) THEN Idx(table, i + 1) ELSE << >>
           rec  == CoscoFields(row1, row2)
       IN  /\ IF CoscoCandidate(row1)
              THEN /\ schedules' = IF Emits(rec) THEN Append(schedules, rec)
                                                ELSE schedules
                   /\ cand' = Append(cand, [rec |-> rec, row1 |-> row1, row2 |-> row2])
              ELSE UNCHANGED <<schedules, cand>>
           /\ i' = i + CoscoAdvance(row1)
           /\ examined' = Append(examined, i)
           /\ pc' = IF i + CoscoAdvance(row1) < Len(table) THEN "rows" ELSE "end"
    /\ UNCHANGED <<table, oneVars, sitcVars, otherVars>>

\* return schedules: the document has no table, or no further table
CoscoReturn ==
    /\ pc \in {"tables", "end"}
    /\ pc' = "done"
    /\ UNCHANGED <<table, examined, i, schedules, cand, oneVars, sitcVars, otherVars>>

InitCosco ==
    /\ pc = "tables"
    /\ table = << >>
    /\ examined = << >>
    /\ i = 0
    /\ cand \in CoscoEarlier
    /\ schedules = Emitted(cand)
    /\ lines = << >>
    /\ ws = NoSheet
    /\ service = << >>
    /\ ts_port = << >>
    /\ transit_time = << >>
    /\ row_idx = 0
    /\ IdleOther

NextCosco ==
    \/ pc = "tables" /\ \E t \in CoscoTables : CoscoTable(t)
    \/ CoscoRow
    \/ CoscoReturn

SpecCosco == InitCosco /\ [][NextCosco]_vars

\* what an iteration of the row loop does to i
CoscoRowAdvance ==
    /\ pc = "rows"
    /\ i < Len(table)
    /\ i' = i + CoscoAdvance(Idx(table, i))

\* the call runs on: an iteration that can be taken is taken, and the function
\* returns when the loops are over
SpecCoscoFair == SpecCosco /\ WF_i(CoscoRowAdvance) /\ WF_vars(CoscoReturn)

---------------------------------------------------------------------------
(* Cell values of a worksheet, as openpyxl returns them                    *)

NoCell == [t |-> "none", v |-> 0]

TxtCell(s) == [t |-> "str", v |-> s]

IntCell(n) == [t |-> "int", v |-> n]

\* a float: v counts half days, the value is v / 2
FltCell(h) == [t |-> "float", v |-> h]

\* a datetime at midnight
DtCell(y, m, d) == [t |-> "datetime", v |-> <<y, m, d>>]

\* the truth value Python gives a cell value
Truthy(c) ==
    CASE c.t = "none"     -> FALSE
      [] c.t = "str"      -> c.v # << >>
      [] c.t = "int"      -> c.v # 0
      [] c.t = "float"    -> c.v # 0
      [] c.t = "datetime" -> TRUE

DigitChars == <<"0", "1", "2", "3", "4", "5", "6", "7", "8", "9">>

RECURSIVE NatStr(_)
NatStr(n) ==
    IF n < 10 THEN <<DigitChars[n + 1]>>
    ELSE Append(NatStr(n \div 10), DigitChars[(n % 10) + 1])

IntStr(n) == IF n < 0 THEN <<"-">> \o NatStr(-n) ELSE NatStr(n)

\* repr of a float that is a whole number of half days
FloatStr(h) ==
    LET a == IF h < 0 THEN -h ELSE h
        body == NatStr(a \div 2) \o <<".">> \o (IF a % 2 = 0 THEN <<"0">> ELSE <<"5">>)
    IN  IF h < 0 THEN <<"-">> \o body ELSE body

\* %m, %d and the like: two digits
Pad2(n) == IF n < 10 THEN <<"0">> \o NatStr(n) ELSE NatStr(n)

Pad4(n) ==
    IF n < 10 THEN <<"0", "0", "0">> \o NatStr(n)
    ELSE IF n < 100 THEN <<"0", "0">> \o NatStr(n)
    ELSE IF n < 1000 THEN <<"0">> \o NatStr(n)
    ELSE NatStr(n)

\* str(value)
PyStr(c) ==
    CASE c.t = "none"     -> NoneText
      [] c.t = "str"      -> c.v
      [] c.t = "int"      -> IntStr(c.v)
      [] c.t = "float"    -> FloatStr(c.v)
      [] c.t = "datetime" -> Pad4(c.v[1]) \o <<"-">> \o Pad2(c.v[2]) \o <<"-">>
                               \o Pad2(c.v[3]) \o <<" ", "0", "0", ":", "0", "0", ":", "0", "0">>

---------------------------------------------------------------------------
(* datetime(1899, 12, 30) + timedelta(days=...), strftime("%m-%d")         *)

\* datetime(1899, 12, 30).toordinal()
EpochOrdinal == 693594

\* datetime.max.toordinal(): 9999-12-31
MaxOrdinal == 3652059

DaysBeforeMonth == <<0, 31, 59, 90, 120, 151, 181, 212, 243, 273, 304, 334>>

DaysInMonth == <<31, 28, 31, 30, 31, 30, 31, 31, 30, 31, 30, 31>>

\* the proleptic Gregorian date <<year, month, day>> of an ordinal (1 = 0001-01-01)
Ord2Ymd(ordinal) ==
    LET n0   == ordinal - 1
        n400 == n0 \div 146097
        r400 == n0 % 146097
        n100 == r400 \div 36524
        r100 == r400 % 36524
        n4   == r100 \div 1461
        r4   == r100 % 1461
        n1   == r4 \div 365
        n    == r4 % 365
        year == n400 * 400 + 1 + n100 * 100 + n4 * 4 + n1
        leap == n1 = 3 /\ (n4 # 24 \/ n100 = 3)
        m0   == (n + 50) \div 32
        p0   == DaysBeforeMonth[m0] + (IF m0 > 2 /\ leap THEN 1 ELSE 0)
        month == IF p0 > n THEN m0 - 1 ELSE m0
        prec == IF p0 > n
                THEN p0 - (DaysInMonth[month] + (IF month = 2 /\ leap THEN 1 ELSE 0))
                ELSE p0
    IN  IF n1 = 4 \/ n100 = 4
        THEN <<year - 1, 12, 31>>
        ELSE <<year, month, n - prec + 1>>

\* what a date computation that overflows raises
OverflowError == <<"<OverflowError>">>

\* (base_date + timedelta(days=float(x))).strftime("%m-%d"), x = h / 2 days
SerialToMMDD(h) ==
    LET ordinal == EpochOrdinal + (h \div 2)
    IN  IF ordinal < 1 \/ ordinal > MaxOrdinal
        THEN OverflowError
        ELSE Pad2(Ord2Ymd(ordinal)[2]) \o <<"-">> \o Pad2(Ord2Ymd(ordinal)[3])

\* re.search(r'(\d{4})-(\d{2})-(\d{2})', s): group(2)-group(3) of the leftmost match
IsoAt(s, p) ==
    /\ DigitAt(s, p) /\ DigitAt(s, p + 1) /\ DigitAt(s, p + 2) /\ DigitAt(s, p + 3)
    /\ CharAt(s, p + 4, "-")
    /\ DigitAt(s, p + 5) /\ DigitAt(s, p + 6)
    /\ CharAt(s, p + 7, "-")
    /\ DigitAt(s, p + 8) /\ DigitAt(s, p + 9)

IsoDate(s) ==
    IF \E p \in 1..Len(s) : IsoAt(s, p)
    THEN LET p == Least({q \in 1..Len(s) : IsoAt(s, q)})
         IN  <<s[p + 5], s[p + 6], "-", s[p + 8], s[p + 9]>>
    ELSE << >>

\* lines 246-258: etd of a row from the raw cell value
SitcEtd(etd_raw) ==
    IF ~Truthy(etd_raw) THEN << >>
    ELSE CASE etd_raw.t = "datetime" -> Pad2(etd_raw.v[2]) \o <<"-">> \o Pad2(etd_raw.v[3])
           [] etd_raw.t = "int"      -> SerialToMMDD(2 * etd_raw.v)
           [] etd_raw.t = "float"    -> SerialToMMDD(etd_raw.v)
           [] OTHER                  -> IsoDate(PyStr(etd_raw))

\* lines 261-272: eta of a row from the raw cell value
SitcEta(eta_raw) ==
    IF ~Truthy(eta_raw) THEN << >>
    ELSE CASE eta_raw.t = "datetime" -> Pad2(eta_raw.v[2]) \o <<"-">> \o Pad2(eta_raw.v[3])
           [] eta_raw.t = "int"      -> SerialToMMDD(2 * eta_raw.v)
           [] eta_raw.t = "float"    -> SerialToMMDD(eta_raw.v)
           [] OTHER                  -> IsoDate(PyStr(eta_raw))

---------------------------------------------------------------------------
(* parse_sitc_excel                                                        *)

\* the first position from p on that holds no upper-case letter / no digit
RECURSIVE UpperRunEnd(_, _)
UpperRunEnd(s, p) ==
    IF p <= Len(s) /\ s[p] \in UpperSet THEN UpperRunEnd(s, p + 1) ELSE p

RECURSIVE DigitRunEnd(_, _)
DigitRunEnd(s, p) ==
    IF p <= Len(s) /\ s[p] \in Digits THEN DigitRunEnd(s, p + 1) ELSE p

\* str(value) if value else ""
TextOrEmpty(c) == IF Truthy(c) THEN PyStr(c) ELSE << >>

\* re.search(r'([A-Z]+\d+[A-Z]*)', a1_value) matches from p
ServiceAt(s, p) ==
    /\ p <= Len(s)
    /\ s[p] \in UpperSet
    /\ DigitAt(s, UpperRunEnd(s, p))

\* lines 213-215: the service code of the sheet
SitcService(a1_value) ==
    IF \E p \in 1..Len(a1_value) : ServiceAt(a1_value, p)
    THEN LET p == Least({q \in 1..Len(a1_value) : ServiceAt(a1_value, q)})
             e == UpperRunEnd(a1_value, DigitRunEnd(a1_value, UpperRunEnd(a1_value, p)))
         IN  SubSeq(a1_value, p, e - 1)
    ELSE << >>

\* a test for DIRECT in A1 as it is written
SitcTsPortCaseSensitive(a1_value) ==
    IF Contains(a1_value, <<"D", "I", "R", "E", "C", "T">>) THEN <<"D", "I", "R", "E", "C", "T">> ELSE << >>

\* line 218
SitcTsPort(a1_value) ==
    IF Contains(Upper(a1_value), <<"D", "I", "R", "E", "C", "T">>) THEN <<"D", "I", "R", "E", "C", "T">> ELSE << >>

\* re.search(r'(\d+)\s*days?', row4_col4, re.IGNORECASE) matches from p
TransitAt(s, p) ==
    /\ DigitAt(s, p)
    /\ OccursAt(Upper(s), <<"D", "A", "Y">>, SkipWs(s, DigitRunEnd(s, p)))

\* lines 221-225: the transit time of the sheet
SitcTransit(row4_col4) ==
    IF \E p \in 1..Len(row4_col4) : TransitAt(row4_col4, p)
    THEN LET p == Least({q \in 1..Len(row4_col4) : TransitAt(row4_col4, q)})
         IN  SubSeq(row4_col4, p, DigitRunEnd(row4_col4, p) - 1)
    ELSE << >>

\* ws.max_row of a sheet whose data rows (row 5 on) are ws.rows
MaxRow(sheet) == 4 + Len(sheet.rows)

\* ws.cell(row=row_idx, column=col).value, for row_idx >= 5
CellValue(sheet, r, col) == sheet.rows[r - 4][col]

\* lines 229-230: vessel and voyage text of a row
SitcVessel(row) == Strip(TextOrEmpty(row[1]))

SitcVoyage(row) == Strip(TextOrEmpty(row[2]))

\* a skip test that looks for SKIP in the vessel as it is written
SitcSkipsCaseSensitive(row) ==
    \/ Contains(SitcVessel(row), <<"S", "K", "I", "P">>)
    \/ Truthy(row[4]) /\ Contains(Upper(PyStr(row[4])), <<"S", "K", "I", "P">>)
    \/ SitcVessel(row) = << >>
    \/ SitcVoyage(row) = << >>

\* lines 235-243: the row is passed over
SitcSkips(row) ==
    \/ Contains(Upper(SitcVessel(row)), <<"S", "K", "I", "P">>)
    \/ Truthy(row[4]) /\ Contains(Upper(PyStr(row[4])), <<"S", "K", "I", "P">>)
    \/ SitcVessel(row) = << >>
    \/ SitcVoyage(row) = << >>

\* lines 245-272: a date computation of the row raises
SitcRaises(row) == SitcEtd(row[3]) = OverflowError \/ SitcEta(row[4]) = OverflowError

\* lines 276-283: the record of a row, with the sheet-wide values
SitcFields(row, svc, ts, tt) ==
    [CARRIER     |-> "SITC",
     Service     |-> svc,
     Vessel      |-> SitcVessel(row),
     Voyage      |-> SitcVoyage(row),
     ETD         |-> SitcEtd(row[3]),
     ETA         |-> SitcEta(row[4]),
     TransitTime |-> tt,
     TSPort      |-> ts]

(* The worksheets of the model: a header (A1, the metadata cell of row 4)  *)
(* and data rows <<vessel, voyage, ETD, ETA>> from row 5 on.               *)
SitcHeaders ==
    {[A1 |-> TxtCell(<<"C", "B", "X", "2", " ", "D", "I", "R", "E", "C", "T", " ", "S", "E", "R", "V", "I", "C", "E">>), D4 |-> TxtCell(<<"1", "1", " ", "d", "a", "y", "s">>)],
     [A1 |-> TxtCell(<<"s", "i", "t", "c", " ", "V", "T", "X", "1", "S", " ", "(", "D", "i", "r", "e", "c", "t", " ", "c", "a", "l", "l", ")">>), D4 |-> TxtCell(<<"T", "/", "T", " ", "9", " ", "D", "a", "y", "s">>)],
     [A1 |-> NoCell, D4 |-> IntCell(12)]}

SitcExampleRow ==
    <<TxtCell(<<"S", "I", "T", "C", " ", "H", "U", "I", "M", "I", "N", "G">>), TxtCell(<<"2", "6", "0", "2", "S">>), DtCell(2026, 2, 18), DtCell(2026, 3, 1)>>

SitcSkipVesselRow ==
    <<TxtCell(<<"P", "o", "r", "t", " ", "s", "k", "i", "p">>), TxtCell(<<"2", "6", "0", "3", "S">>), DtCell(2026, 2, 25), DtCell(2026, 3, 8)>>

SitcSkipEtaRow ==
    <<TxtCell(<<"S", "I", "T", "C", " ", "K", "E", "E", "L", "U", "N", "G">>), TxtCell(<<"2", "6", "0", "3", "S">>), IntCell(46068), TxtCell(<<"s", "k", "i", "p">>)>>

\* numeric cells: voyage 2604, ETD serial 46068 (2026-02-15), ETA 46079.5
SitcSerialRow ==
    <<TxtCell(<<" ", "S", "I", "T", "C", " ", "M", "O", "J", "I", " ">>), IntCell(2604), IntCell(46068), FltCell(92159)>>

SitcTextRow ==
    <<TxtCell(<<"S", "I", "T", "C", " ", "K", "O", "B", "E">>), TxtCell(<<"2", "6", "0", "5", "S">>), TxtCell(<<"E", "T", "D", " ", "2", "0", "2", "6", "-", "0", "2", "-", "2", "0">>),
      TxtCell(<<"2", "0", "2", "6", "-", " ", "0", "3", "-", " ", "0", "2">>)>>

SitcNoVoyageRow ==
    <<TxtCell(<<"S", "I", "T", "C", " ", "O", "S", "A", "K", "A">>), NoCell, DtCell(2026, 2, 21), DtCell(2026, 3, 2)>>

SitcBlankDateRow ==
    <<TxtCell(<<"S", "I", "T", "C", " ", "H", "U", "I", "M", "I", "N", "G">>), TxtCell(<<"2", "6", "0", "6", "S">>), TxtCell(<<"2", "0", "2", "6", "-", " ", "0", "2", "-", " ", "1", "5">>),
      DtCell(2026, 3, 5)>>

\* an ETD serial one day past 9999-12-31
SitcOverflowRow ==
    <<TxtCell(<<"S", "I", "T", "C", " ", "H", "U", "I", "M", "I", "N", "G">>), TxtCell(<<"2", "6", "0", "7", "S">>), IntCell(2958466), NoCell>>

SitcRows ==
    {SitcExampleRow, SitcSkipVesselRow, SitcSkipEtaRow, SitcSerialRow,
     SitcTextRow, SitcNoVoyageRow, SitcBlankDateRow, SitcOverflowRow}

MaxSheetRows == 3

Worksheets ==
    {[A1 |-> h.A1, D4 |-> h.D4, rows |-> r] :
        h \in SitcHeaders, r \in SeqsUpTo(SitcRows, MaxSheetRows)}

\* lines 209-225: load the workbook, read the sheet-wide values
SitcOpen(sheet) ==
    /\ pc = "open"
    /\ ws' = sheet
    /\ service' = SitcService(TextOrEmpty(sheet.A1))
    /\ ts_port' = SitcTsPort(TextOrEmpty(sheet.A1))
    /\ transit_time' = SitcTransit(TextOrEmpty(sheet.D4))
    /\ row_idx' = 5
    /\ pc' = "sitc_rows"
    /\ UNCHANGED <<schedules, cand, i, coscoVars, oneVars, otherVars>>

\* one iteration of  for row_idx in range(5, ws.max_row + 1)
SitcRow ==
    /\ pc = "sitc_rows"
    /\ row_idx <= MaxRow(ws)
    /\ LET row == <<CellValue(ws, row_idx, 1), CellValue(ws, row_idx, 2),
                    CellValue(ws, row_idx, 3), CellValue(ws, row_idx, 4)>>
           rec == SitcFields(row, service, ts_port, transit_time)
       IN  IF SitcSkips(row)
           THEN /\ row_idx' = row_idx + 1
                /\ UNCHANGED <<pc, schedules, cand>>
           ELSE IF SitcRaises(row)
           THEN /\ pc' = "raised"
                /\ UNCHANGED <<row_idx, schedules, cand>>
           ELSE /\ schedules' = IF Emits(rec) THEN Append(schedules, rec)
                                             ELSE schedules
                /\ cand' = Append(cand, [rec |-> rec, row |-> row_idx])
                /\ row_idx' = row_idx + 1
                /\ pc' = pc
    /\ UNCHANGED <<ws, service, ts_port, transit_time, i, coscoVars, oneVars, otherVars>>

\* return schedules
SitcReturn ==
    /\ pc = "sitc_rows"
    /\ row_idx > MaxRow(ws)
    /\ pc' = "done"
    /\ UNCHANGED <<schedules, cand, i, coscoVars, oneVars, sitcVars, otherVars>>

InitSitc ==
    /\ pc = "open"
    /\ ws = NoSheet
    /\ service = << >>
    /\ ts_port = << >>
    /\ transit_time = << >>
    /\ row_idx = 0
    /\ schedules = << >>
    /\ cand = << >>
    /\ table = << >>
    /\ examined = << >>
    /\ i = 0
    /\ lines = << >>
    /\ IdleOther

NextSitc ==
    \/ pc = "open" /\ \E sheet \in Worksheets : SitcOpen(sheet)
    \/ SitcRow
    \/ SitcReturn

SpecSitc == InitSitc /\ [][NextSitc]_vars

---------------------------------------------------------------------------
(* parse_one_pdf                                                           *)

\* re.match(r'^(\d+)\s+DAY\(S\)', line)
IsAnchor(line) ==
    /\ DigitAt(line, 1)
    /\ DigitRunEnd(line, 1) <= Len(line)
    /\ line[DigitRunEnd(line, 1)] \in Whitespace
    /\ OccursAt(line, <<"D", "A", "Y", "(", "S", ")">>, SkipWs(line, DigitRunEnd(line, 1)))

\* transit_match.group(1)
AnchorTransit(line) == SubSeq(line, 1, DigitRunEnd(line, 1) - 1)

\* the first position of the run of upper-case letters / digits that ends at e
RECURSIVE UpperRunStart(_, _)
UpperRunStart(s, e) ==
    IF e >= 1 /\ s[e] \in UpperSet THEN UpperRunStart(s, e - 1) ELSE e + 1

RECURSIVE DigitRunStart(_, _)
DigitRunStart(s, e) ==
    IF e >= 1 /\ s[e] \in Digits THEN DigitRunStart(s, e - 1) ELSE e + 1

\* every character of s is an upper-case letter or whitespace
UpperOrSpace(s) == \A k \in 1..Len(s) : s[k] \in UpperSet \cup Whitespace

(* re.match(r'^([A-Z\s]+?)(\s+\d+[A-Z]+)$', vessel_line): the line ends with  *)
(* digits followed by letters, everything before them is letters and       *)
(* whitespace and ends with whitespace.  <<vessel, voyage>>, or << >>.     *)
LabelledVessel(vessel_line) ==
    LET l == UpperRunStart(vessel_line, Len(vessel_line))
        d == DigitRunStart(vessel_line, l - 1)
        P == SubSeq(vessel_line, 1, d - 1)
    IN  IF /\ l <= Len(vessel_line)
           /\ d < l
           /\ P # << >>
           /\ P[Len(P)] \in Whitespace
           /\ UpperOrSpace(P)
        THEN <<Strip(P), SubSeq(vessel_line, d, Len(vessel_line))>>
        ELSE << >>

(* re.match(r'^([A-Z][A-Z\s]+?)(\s+\d+[A-Z]+)\s', check_line) with the name  *)
(* ending before position q: whitespace from q up to digits, letters, and  *)
(* a whitespace character after them                                       *)
FallbackAt(s, q) ==
    LET w == SkipWs(s, q)
        d == DigitRunEnd(s, w)
        l == UpperRunEnd(s, d)
    IN  /\ q >= 3
        /\ s[1] \in UpperSet
        /\ UpperOrSpace(SubSeq(s, 2, q - 1))
        /\ q <= Len(s) /\ s[q] \in Whitespace
        /\ DigitAt(s, w)
        /\ l > d
        /\ l <= Len(s) /\ s[l] \in Whitespace

\* <<vessel, voyage>> of the fallback pattern, or << >>
FallbackVessel(check_line) ==
    LET Q == {q \in 3..Len(check_line) : FallbackAt(check_line, q)}
    IN  IF Q = {} THEN << >>
        ELSE LET q == Least(Q)
                 w == SkipWs(check_line, q)
                 l == UpperRunEnd(check_line, DigitRunEnd(check_line, w))
             IN  <<Strip(SubSeq(check_line, 1, q - 1)), SubSeq(check_line, w, l - 1)>>

\* lines[j].strip(), j 0-based
LineAt(ls, j) == Strip(Idx(ls, j))

\* for j in range(i, min(i+3, len(lines))): the first line the fallback pattern matches
RECURSIVE FallbackScan(_, _, _)
FallbackScan(ls, j, stop) ==
    IF j >= stop THEN << >>
    ELSE IF FallbackVessel(LineAt(ls, j)) # << >> THEN FallbackVessel(LineAt(ls, j))
    ELSE FallbackScan(ls, j + 1, stop)

Min(a, b) == IF a < b THEN a ELSE b

\* min(i+3, len(lines)), line 140
FallbackStop(ls, a) == Min(a + 3, Len(ls))

\* a window of one line more
WindowStopLate(ls, a) == Min(a + 21, Len(ls))

\* min(i+20, len(lines)), line 154
WindowStop(ls, a) == Min(a + 20, Len(ls))

\* lines 127-146: <<vessel, voyage>> of the entry anchored at line i
OneVessel(ls, a) ==
    LET labelled ==
            IF Contains(LineAt(ls, a), <<"V", "e", "s", "s", "e", "l", " ", "/", " ", "V", "o", "y", "a", "g", "e">>) /\ a + 1 < Len(ls)
            THEN LabelledVessel(LineAt(ls, a + 1))
            ELSE << >>
    IN  IF labelled # << >> /\ labelled[1] # << >>
        THEN labelled
        ELSE LET fb == FallbackScan(ls, a, FallbackStop(ls, a))
             IN  IF fb # << >> THEN fb ELSE << << >>, << >> >>

\* re.findall(r'(\d{4})-(\d{2})-(\d{2})', date_line): the start positions, in order
RECURSIVE IsoStarts(_, _)
IsoStarts(s, from) ==
    LET P == {p \in from..Len(s) : IsoAt(s, p)}
    IN  IF P = {} THEN << >>
        ELSE <<Least(P)>> \o IsoStarts(s, Least(P) + 10)

MMDDAt(s, p) == <<s[p + 5], s[p + 6], "-", s[p + 8], s[p + 9]>>

\* re.search(r'Service.*?Origin.*?Destination', check_line)
IsServiceHeader(s) ==
    \E p \in 1..Len(s) :
        /\ OccursAt(s, <<"S", "e", "r", "v", "i", "c", "e">>, p)
        /\ \E q \in (p + 7)..Len(s) :
              /\ OccursAt(s, <<"O", "r", "i", "g", "i", "n">>, q)
              /\ \E r \in (q + 6)..Len(s) : OccursAt(s, <<"D", "e", "s", "t", "i", "n", "a", "t", "i", "o", "n">>, r)

\* the first position from p on that holds whitespace
RECURSIVE SkipNonWs(_, _)
SkipNonWs(s, p) ==
    IF p <= Len(s) /\ s[p] \notin Whitespace THEN SkipNonWs(s, p + 1) ELSE p

\* service_line.split()[0] of a stripped, non-empty line
FirstToken(s) == SubSeq(s, 1, SkipNonWs(s, 1) - 1)

\* lines 155-178: what line j of the window does to the fields found so far
WindowStep(ls, j, f) ==
    LET check_line == LineAt(ls, j)
        next       == IF j + 1 < Len(ls) THEN LineAt(ls, j + 1) ELSE << >>
        dates      == IsoStarts(next, 1)
        f1 == IF check_line = <<"O", "r", "i", "g", "i", "n", " ", "D", "e", "s", "t", "i", "n", "a", "t", "i", "o", "n">> /\ j + 1 < Len(ls)
                 /\ Len(dates) >= 2
              THEN [f EXCEPT !.etd = MMDDAt(next, dates[1]),
                             !.eta = MMDDAt(next, dates[2])]
              ELSE f
        f2 == IF check_line = <<"T", "R", "A", "N", "S", "S", "H", "I", "P", "M", "E", "N", "T">>
              THEN [f1 EXCEPT !.ts_port = <<"T", "R", "A", "N", "S", "S", "H", "I", "P", "M", "E", "N", "T">>]
              ELSE f1
    IN  IF /\ IsServiceHeader(check_line)
           /\ j + 1 < Len(ls)
           /\ next # << >>
           /\ FirstToken(next) \notin {<<"C", "Y">>, <<"O", "r", "i", "g", "i", "n">>, <<"D", "e", "s", "t", "i", "n", "a", "t", "i", "o", "n">>}
           /\ Len(FirstToken(next)) <= 5
        THEN [f2 EXCEPT !.service = FirstToken(next)]
        ELSE f2

\* for j in range(i, min(i+20, len(lines)))
RECURSIVE WindowScan(_, _, _, _)
WindowScan(ls, j, stop, f) ==
    IF j >= stop THEN f
    ELSE WindowScan(ls, j + 1, stop, WindowStep(ls, j, f))

\* lines 125-190: the record of the entry anchored at line a
OneFields(ls, a) ==
    LET vv == OneVessel(ls, a)
        f  == WindowScan(ls, a, WindowStop(ls, a),
                         [etd |-> << >>, eta |-> << >>, service |-> << >>,
                          ts_port |-> << >>])
    IN  [CARRIER     |-> "ONE",
         Service     |-> f.service,
         Vessel      |-> vv[1],
         Voyage      |-> vv[2],
         ETD         |-> f.etd,
         ETA         |-> f.eta,
         TransitTime |-> AnchorTransit(LineAt(ls, a)),
         TSPort      |-> f.ts_port]

(* The lines the pages of the model are made of *)
OneLines ==
    {<<"1", "1", " ", "D", "A", "Y", "(", "S", ")", " ", "V", "e", "s", "s", "e", "l", " ", "/", " ", "V", "o", "y", "a", "g", "e">>,
     <<"M", "T", "T", " ", "S", "E", "N", "A", "R", "I", " ", "0", "2", "9", "S">>,
     <<"O", "r", "i", "g", "i", "n", " ", "D", "e", "s", "t", "i", "n", "a", "t", "i", "o", "n">>,
     <<"P", "N", "2", " ", "2", "0", "2", "6", "-", "0", "2", "-", "1", "5", " ", "2", "0", "2", "6", "-", "0", "2", "-", "2", "6">>,
     <<" ", "9", " ", "D", "A", "Y", "(", "S", ")">>,
     <<"O", "N", "E", " ", "H", "A", "R", "B", "O", "U", "R", " ", "0", "4", "1", "E", " ", "2", "0", "2", "6", "-", "0", "3", "-", "0", "1">>,
     <<"O", "N", "E", " ", "H", "O", "P", "E", " ", "0", "5", "2", "E", " ", "2", "0", "2", "6", "-", "0", "3", "-", "0", "1", " ", "2", "0", "2", "6", "-", "0", "3", "-", "1", "2">>,
     <<"T", "R", "A", "N", "S", "S", "H", "I", "P", "M", "E", "N", "T">>,
     <<"S", "e", "r", "v", "i", "c", "e", " ", "L", "a", "n", "e", " ", "O", "r", "i", "g", "i", "n", " ", "D", "e", "s", "t", "i", "n", "a", "t", "i", "o", "n">>}

MaxLines == 4

\* a line no pattern of the extractor matches
OneFiller == <<"C", "Y", " ", "C", "Y">>

\* entries of a schedule, each from its anchor to the line before the next
OneEntries ==
    {<<<<"1", "1", " ", "D", "A", "Y", "(", "S", ")", " ", "V", "e", "s", "s", "e", "l", " ", "/", " ", "V", "o", "y", "a", "g", "e">>, <<"M", "T", "T", " ", "S", "E", "N", "A", "R", "I", " ", "0", "2", "9", "S">>, <<"O", "r", "i", "g", "i", "n", " ", "D", "e", "s", "t", "i", "n", "a", "t", "i", "o", "n">>,
       <<"P", "N", "2", " ", "2", "0", "2", "6", "-", "0", "2", "-", "1", "5", " ", "2", "0", "2", "6", "-", "0", "2", "-", "2", "6">>>>,
     <<<<" ", "9", " ", "D", "A", "Y", "(", "S", ")">>, <<"O", "r", "i", "g", "i", "n", " ", "D", "e", "s", "t", "i", "n", "a", "t", "i", "o", "n">>, <<"O", "N", "E", " ", "H", "O", "P", "E", " ", "0", "5", "2", "E", " ", "2", "0", "2", "6", "-", "0", "3", "-", "0", "1", " ", "2", "0", "2", "6", "-", "0", "3", "-", "1", "2">>,
       <<"T", "R", "A", "N", "S", "S", "H", "I", "P", "M", "E", "N", "T">>>>,
     <<<<"1", "1", " ", "D", "A", "Y", "(", "S", ")", " ", "V", "e", "s", "s", "e", "l", " ", "/", " ", "V", "o", "y", "a", "g", "e">>, <<"O", "N", "E", " ", "H", "O", "P", "E", " ", "0", "5", "2", "E", " ", "2", "0", "2", "6", "-", "0", "3", "-", "0", "1", " ", "2", "0", "2", "6", "-", "0", "3", "-", "1", "2">>,
       <<"S", "e", "r", "v", "i", "c", "e", " ", "L", "a", "n", "e", " ", "O", "r", "i", "g", "i", "n", " ", "D", "e", "s", "t", "i", "n", "a", "t", "i", "o", "n">>, <<"P", "N", "2", " ", "2", "0", "2", "6", "-", "0", "2", "-", "1", "5", " ", "2", "0", "2", "6", "-", "0", "2", "-", "2", "6">>>>,
     <<<<" ", "9", " ", "D", "A", "Y", "(", "S", ")">>, OneFiller, OneFiller, <<"O", "N", "E", " ", "H", "A", "R", "B", "O", "U", "R", " ", "0", "4", "1", "E", " ", "2", "0", "2", "6", "-", "0", "3", "-", "0", "1">>>>,
     <<<<" ", "9", " ", "D", "A", "Y", "(", "S", ")">>, <<"M", "T", "T", " ", "S", "E", "N", "A", "R", "I", " ", "0", "2", "9", "S">>, <<"O", "r", "i", "g", "i", "n", " ", "D", "e", "s", "t", "i", "n", "a", "t", "i", "o", "n">>,
       <<"P", "N", "2", " ", "2", "0", "2", "6", "-", "0", "2", "-", "1", "5", " ", "2", "0", "2", "6", "-", "0", "2", "-", "2", "6">>>>}

\* pages of two entries
OneEntryPages == {e1 \o e2 : e1, e2 \in OneEntries}

\* the longest run of filler lines of a page
MaxPad == 16

RECURSIVE Fillers(_)
Fillers(n) == IF n = 0 THEN << >> ELSE <<OneFiller>> \o Fillers(n - 1)

\* what follows the filler lines of a long page
OneTails ==
    {<<<<"O", "r", "i", "g", "i", "n", " ", "D", "e", "s", "t", "i", "n", "a", "t", "i", "o", "n">>, <<"O", "N", "E", " ", "H", "O", "P", "E", " ", "0", "5", "2", "E", " ", "2", "0", "2", "6", "-", "0", "3", "-", "0", "1", " ", "2", "0", "2", "6", "-", "0", "3", "-", "1", "2">>>>,
     <<<<"T", "R", "A", "N", "S", "S", "H", "I", "P", "M", "E", "N", "T">>>>,
     <<<<"S", "e", "r", "v", "i", "c", "e", " ", "L", "a", "n", "e", " ", "O", "r", "i", "g", "i", "n", " ", "D", "e", "s", "t", "i", "n", "a", "t", "i", "o", "n">>, <<"P", "N", "3", " ", "2", "0", "2", "6", "-", "0", "3", "-", "0", "1", " ", "2", "0", "2", "6", "-", "0", "3", "-", "1", "2">>>>}

\* pages of an entry, filler lines up to the end of its window, and a marker
OneLongPages ==
    {<<<<"1", "1", " ", "D", "A", "Y", "(", "S", ")", " ", "V", "e", "s", "s", "e", "l", " ", "/", " ", "V", "o", "y", "a", "g", "e">>, <<"M", "T", "T", " ", "S", "E", "N", "A", "R", "I", " ", "0", "2", "9", "S">>, <<"O", "r", "i", "g", "i", "n", " ", "D", "e", "s", "t", "i", "n", "a", "t", "i", "o", "n">>,
       <<"P", "N", "2", " ", "2", "0", "2", "6", "-", "0", "2", "-", "1", "5", " ", "2", "0", "2", "6", "-", "0", "2", "-", "2", "6">>>> \o Fillers(n) \o tail :
        n \in (MaxPad - 3)..MaxPad, tail \in OneTails}

OnePages == SeqsUpTo(OneLines, MaxLines) \cup OneEntryPages \cup OneLongPages

\* lines 112-118: the text of a page, split into lines; a page without text is << >>
OnePage(ls) ==
    /\ pc = "pages"
    /\ lines' = ls
    /\ i' = 0
    /\ pc' = IF ls = << >> THEN "page_end" ELSE "lines"
    /\ UNCHANGED <<schedules, cand, coscoVars, sitcVars, otherVars>>

\* one iteration of  while i < len(lines)
OneLine ==
    /\ pc = "lines"
    /\ i < Len(lines)
    /\ IF IsAnchor(LineAt(lines, i))
       THEN LET rec == OneFields(lines, i)
            IN  /\ schedules' = IF Emits(rec) THEN Append(schedules, rec)
                                             ELSE schedules
                /\ cand' = Append(cand, [rec |-> rec, anchor |-> i])
       ELSE UNCHANGED <<schedules, cand>>
    /\ i' = i + 1
    /\ pc' = IF i + 1 < Len(lines) THEN "lines" ELSE "page_end"
    /\ UNCHANGED <<lines, coscoVars, sitcVars, otherVars>>

\* return schedules: the document has no page, or no further page
OneReturn ==
    /\ pc \in {"pages", "page_end"}
    /\ pc' = "done"
    /\ UNCHANGED <<i, schedules, cand, coscoVars, oneVars, sitcVars, otherVars>>

InitOne ==
    /\ pc = "pages"
    /\ lines = << >>
    /\ i = 0
    /\ schedules = << >>
    /\ cand = << >>
    /\ table = << >>
    /\ examined = << >>
    /\ ws = NoSheet
    /\ service = << >>
    /\ ts_port = << >>
    /\ transit_time = << >>
    /\ row_idx = 0
    /\ IdleOther

NextOne ==
    \/ pc = "pages" /\ \E ls \in OnePages : OnePage(ls)
    \/ OneLine
    \/ OneReturn

SpecOne == InitOne /\ [][NextOne]_vars


---------------------------------------------------------------------------
(* The date normalization on its own: one raw value through one of the     *)
(* code paths that turn a cell into an MM-DD text                          *)

\* lines 65-67 and 77-80 of parse_cosco_pdf: a table cell to MM-DD
CoscoNormalized(cell) == CoscoDate(Strip(PyStr(cell)))

\* how many consecutive day serials of the years 2024-2026 are tried
SerialSpan == 1100

\* day serials: 2024-01-01 onwards, the ends of the datetime range, and
\* the values around the epoch and around 1900-03-01
Serials ==
    {45292 + k : k \in 0..SerialSpan}
      \cup {-693594, -693593, -1, 0, 1, 59, 60, 61, 2958465, 2958466}

\* half-day counts of float cells: 0.0, 0.5, -0.5, 46068.0, 46068.5, ...
HalfDays == {-1387187, -1387186, -1, 0, 1, 2, 92136, 92137, 5916931, 5916932}

DateTexts ==
    {<<"2", "0", "2", "6", "-", "0", "2", "-", "1", "5">>, <<"2", "0", "2", "6", "-", " ", "0", "2", "-", " ", "1", "5">>, <<"2", "0", "2", "6", " ", "-", "0", "2", "-", "1", "5">>, <<"2", "0", "2", "6", " ", "-", " ", "0", "2", " ", "-", " ", "1", "5">>,
     <<"E", "T", "D", " ", "2", "0", "2", "6", "-", "0", "2", "-", "2", "0", " ", "1", "2", ":", "0", "0">>, <<" ", "2", "0", "2", "6", "-", "0", "3", "-", "0", "1", " ">>, <<"2", "0", "2", "5", "-", "1", "2", "-", "3", "1">>,
     <<"1", "5", "/", "0", "2", "/", "2", "0", "2", "6">>, <<"T", "B", "A">>, <<"0", "2", "-", "1", "5">>, << >>}

SomeDates ==
    {DtCell(y, m, d) : y \in {2024, 2026}, m \in 1..12, d \in {1, 15, 28}}
      \cup {DtCell(2024, 2, 29), DtCell(2026, 12, 31), DtCell(1, 1, 1)}

\* the values a worksheet cell can hold
SheetCells ==
    {NoCell} \cup {TxtCell(t) : t \in DateTexts} \cup {IntCell(n) : n \in Serials}
      \cup {FltCell(h) : h \in HalfDays} \cup SomeDates

\* the values a cell of a PDF table can hold
TableCells == {NoCell} \cup {TxtCell(t) : t \in DateTexts}

\* parse_cosco_pdf, lines 65-67 and 77-80
NormalizeCosco ==
    /\ pc = "normalize" /\ date_path = "cosco"
    /\ date_out' = CoscoNormalized(date_raw)
    /\ pc' = "done"
    /\ UNCHANGED <<date_path, date_raw, extractVars, aggVars, filterVars>>

\* parse_sitc_excel, lines 246-258
NormalizeSitcEtd ==
    /\ pc = "normalize" /\ date_path = "sitc_etd"
    /\ IF SitcEtd(date_raw) = OverflowError
       THEN pc' = "raised" /\ date_out' = date_out
       ELSE pc' = "done" /\ date_out' = SitcEtd(date_raw)
    /\ UNCHANGED <<date_path, date_raw, extractVars, aggVars, filterVars>>

\* parse_sitc_excel, lines 261-272
NormalizeSitcEta ==
    /\ pc = "normalize" /\ date_path = "sitc_eta"
    /\ IF SitcEta(date_raw) = OverflowError
       THEN pc' = "raised" /\ date_out' = date_out
       ELSE pc' = "done" /\ date_out' = SitcEta(date_raw)
    /\ UNCHANGED <<date_path, date_raw, extractVars, aggVars, filterVars>>

\* the variables of the extractors, while none runs
IdleExtract ==
    /\ table = << >>
    /\ examined = << >>
    /\ i = 0
    /\ lines = << >>
    /\ ws = NoSheet
    /\ service = << >>
    /\ ts_port = << >>
    /\ transit_time = << >>
    /\ row_idx = 0
    /\ schedules = << >>
    /\ cand = << >>

InitDate ==
    /\ pc = "normalize"
    /\ date_path \in {"cosco", "sitc_etd", "sitc_eta"}
    /\ date_raw \in IF date_path = "cosco" THEN TableCells ELSE SheetCells
    /\ date_out = << >>
    /\ IdleExtract
    /\ IdleAgg
    /\ IdleFilter

NextDate ==
    \/ NormalizeCosco
    \/ NormalizeSitcEtd
    \/ NormalizeSitcEta

SpecDate == InitDate /\ [][NextDate]_vars

---------------------------------------------------------------------------
(* Claims about the date normalization                                     *)

C5_IsLeap(y) == y % 4 = 0 /\ (y % 100 # 0 \/ y % 400 = 0)

C5_MonthLength(y, m) ==
    IF m = 2 THEN (IF C5_IsLeap(y) THEN 29 ELSE 28)
    ELSE IF m \in {4, 6, 9, 11} THEN 30 ELSE 31

RECURSIVE C5_DaysBeforeMonth(_, _)
C5_DaysBeforeMonth(y, m) ==
    IF m = 1 THEN 0 ELSE C5_DaysBeforeMonth(y, m - 1) + C5_MonthLength(y, m - 1)

\* days from 0001-01-01 (day 1) to the date, proleptic Gregorian calendar
C5_DayNumber(y, m, d) ==
    365 * (y - 1) + ((y - 1) \div 4) - ((y - 1) \div 100) + ((y - 1) \div 400)
      + C5_DaysBeforeMonth(y, m) + d

\* MM-DD of the calendar date 1899-12-30 + n days
C5_MMDD(n) ==
    LET target == C5_DayNumber(1899, 12, 30) + n
        y0     == (target * 400) \div 146097
        date   == CHOOSE ymd \in ((y0 - 1)..(y0 + 2)) \X (1..12) \X (1..31) :
                      /\ ymd[3] <= C5_MonthLength(ymd[1], ymd[2])
                      /\ C5_DayNumber(ymd[1], ymd[2], ymd[3]) = target
    IN  Pad2(date[2]) \o <<"-">> \o Pad2(date[3])

\* the whole days of a numeric cell
C5_Days(cell) == IF cell.t = "int" THEN cell.v ELSE cell.v \div 2

(* C5: a numeric day serial n is normalized, as ETD and as ETA, to the     *)
(* MM-DD of the calendar date 1899-12-30 + n days, for every n; the serial *)
(* of 2026-02-15 gives 02-15.                                              *)
C5_SerialToDate ==
    (date_path \in {"sitc_etd", "sitc_eta"} /\ date_raw.t \in {"int", "float"}
       /\ pc # "normalize")
      => /\ pc = "done"
         /\ date_out = C5_MMDD(C5_Days(date_raw))
         /\ (date_raw = IntCell(46068) => date_out = <<"0", "2", "-", "1", "5">>)

\* is character k of a text a blank next to a delimiter, blanks in between
\* disregarded
RECURSIVE C6_BlankRunLeft(_, _)
C6_BlankRunLeft(s, k) ==
    IF k < 1 THEN FALSE
    ELSE IF s[k] \in Whitespace THEN C6_BlankRunLeft(s, k - 1)
    ELSE s[k] = "-"

RECURSIVE C6_BlankRunRight(_, _)
C6_BlankRunRight(s, k) ==
    IF k > Len(s) THEN FALSE
    ELSE IF s[k] \in Whitespace THEN C6_BlankRunRight(s, k + 1)
    ELSE s[k] = "-"

RECURSIVE C6_Tighten(_, _)
\* the text from character k on, without the blanks around its delimiters
C6_Tighten(s, k) ==
    IF k > Len(s) THEN << >>
    ELSE IF s[k] \in Whitespace /\ (C6_BlankRunLeft(s, k) \/ C6_BlankRunRight(s, k))
         THEN C6_Tighten(s, k + 1)
         ELSE <<s[k]>> \o C6_Tighten(s, k + 1)

\* the result of a code path on a cell
C6_Normalize(path, cell) ==
    CASE path = "cosco"    -> CoscoNormalized(cell)
      [] path = "sitc_etd" -> SitcEtd(cell)
      [] path = "sitc_eta" -> SitcEta(cell)

(* C6: in every path that normalizes a textual date (COSCO cells, SITC     *)
(* text ETD and ETA cells) a text with whitespace around the delimiters of *)
(* its date is normalized to the same MM-DD as the text without that       *)
(* whitespace; "2026- 02- 15" gives 02-15.                                 *)
C6_WhitespaceTolerant ==
    (date_raw.t = "str" /\ pc = "done")
      => /\ date_out = C6_Normalize(date_path, TxtCell(C6_Tighten(date_raw.v, 1)))
         /\ (date_raw.v = <<"2", "0", "2", "6", "-", " ", "0", "2", "-", " ", "1", "5">> => date_out = <<"0", "2", "-", "1", "5">>)

\* is a text an MM-DD text
C7_IsMMDD(s) ==
    /\ Len(s) = 5
    /\ s[1] \in Digits /\ s[2] \in Digits /\ s[3] = "-" /\ s[4] \in Digits /\ s[5] \in Digits

(* C7: the normalization of a raw ETD or ETA value (text, date/time value, *)
(* number of any size and sign, or missing) never raises, and its result   *)
(* is an MM-DD text or the empty text.                                     *)
C7_NeverRaises ==
    /\ pc # "raised"
    /\ pc = "done" => (date_out = << >> \/ C7_IsMMDD(date_out))

---------------------------------------------------------------------------
(* The three extractors side by side: a run is one extractor on one input  *)

InitExtract == InitCosco \/ InitOne \/ InitSitc

NextExtract ==
    \/ NextCosco
    \/ NextOne
    \/ NextSitc

SpecExtract == InitExtract /\ [][NextExtract]_vars

\* the fields extracted for the entries that reached the emission test
C1_Extracted == [n \in 1..Len(cand) |-> cand[n].rec]

C1_Complete(r) == r.Vessel # << >> /\ r.Voyage # << >> /\ r.ETD # << >>

(* C1: in each of the three extractors every record of the result has a    *)
(* non-empty Vessel, Voyage and ETD, and every entry the extractor         *)
(* processes whose vessel, voyage and ETD are all non-empty is a record of *)
(* the result: the records are exactly the complete entries, in order.     *)
C1_EmittedIffComplete ==
    /\ \A n \in 1..Len(schedules) : C1_Complete(schedules[n])
    /\ schedules = SelectSeq(C1_Extracted, C1_Complete)

\* a run that emitted an entry and dropped another
C1_Witness ==
    /\ pc = "done"
    /\ \E n \in 1..Len(cand) : C1_Complete(cand[n].rec)
    /\ \E n \in 1..Len(cand) : cand[n].rec.ETD = << >>
    /\ Len(schedules) < Len(cand)
---------------------------------------------------------------------------
(* Claims about parse_cosco_pdf                                            *)

\* the text of cell k (0-based) of a row, as the record carries it
C2_CellText(row, k) == Strip(Str(Idx(row, k)))

\* a text with its whitespace removed
C2_Squeeze(s) == SelectSeq(s, LAMBDA c : c \notin Whitespace)

C2_IsoDateAt(s, p) ==
    /\ DigitAt(s, p) /\ DigitAt(s, p + 1) /\ DigitAt(s, p + 2) /\ DigitAt(s, p + 3)
    /\ CharAt(s, p + 4, "-")
    /\ DigitAt(s, p + 5) /\ DigitAt(s, p + 6)
    /\ CharAt(s, p + 7, "-")
    /\ DigitAt(s, p + 8) /\ DigitAt(s, p + 9)

\* MM-DD of the first 2026-MM-DD date a text holds, blanks disregarded
C2_Date2026In(s) ==
    LET q == C2_Squeeze(s)
        P == {p \in 1..Len(q) : C2_IsoDateAt(q, p) /\ OccursAt(q, <<"2", "0", "2", "6">>, p)}
    IN  IF P = {} THEN << >>
        ELSE <<q[Least(P) + 5], q[Least(P) + 6], "-", q[Least(P) + 8], q[Least(P) + 9]>>

\* the record the field mapping of the specification gives a row pair
C2_Record(row1, row2) ==
    [CARRIER     |-> "COSCO",
     Service     |-> C2_CellText(row1, 1),
     Vessel      |-> C2_CellText(row1, 2),
     Voyage      |-> C2_CellText(row1, 3),
     ETD         |-> C2_Date2026In(Str(Idx(row1, 6))),
     ETA         |-> IF Len(row2) > 9 THEN C2_Date2026In(Str(Idx(row2, 9))) ELSE << >>,
     TransitTime |-> IF Len(row1) > 12 THEN C2_CellText(row1, 12) ELSE << >>,
     TSPort      |-> C2_CellText(row1, 8)]

\* the entries of cand whose record was appended to schedules
C2_CandEmitted == SelectSeq(cand, LAMBDA c : Emits(c.rec))

\* the records appended by the table of this run (after the earlier ones)
C2_CoscoNew ==
    IF cand # << >> /\ cand[1].row1 = CoscoEarlierRow1
    THEN Tail(schedules)
    ELSE schedules

C2_CoscoExampleTable == <<CoscoHeaderRow, CoscoExampleRow1, CoscoExampleRow2>>

C2_CoscoExampleRecord ==
    [CARRIER     |-> "COSCO",
     Service     |-> <<"H", "P", "X", "2">>,
     Vessel      |-> <<"M", "T", "T", " ", "S", "E", "N", "A", "R", "I">>,
     Voyage      |-> <<"0", "2", "9", "S">>,
     ETD         |-> <<"0", "2", "-", "1", "5">>,
     ETA         |-> <<"0", "2", "-", "2", "6">>,
     TransitTime |-> <<"1", "1">>,
     TSPort      |-> <<"P", "o", "r", "t", " ", "k", "e", "l", "a", "n", "g">>]

(* C2: every record of parse_cosco_pdf is COSCO / HPX2 and carries the     *)
(* cells of its row pair at the fixed offsets: service row1[1], vessel     *)
(* row1[2], voyage row1[3], ETD the MM-DD of the 2026 date in row1[6],     *)
(* T/S port row1[8], transit time row1[12], ETA the MM-DD of the 2026      *)
(* date in row2[9]; the example pair of the specification yields exactly   *)
(* its one record, and a pair whose service is EC3 yields none.            *)
C2_CoscoMapping ==
    /\ Len(schedules) = Len(C2_CandEmitted)
    /\ \A n \in 1..Len(schedules) :
          /\ schedules[n] = C2_Record(C2_CandEmitted[n].row1, C2_CandEmitted[n].row2)
          /\ schedules[n].Service = HPX2
          /\ schedules[n].CARRIER = "COSCO"
    /\ \A n \in 1..Len(cand) : cand[n].row1 # CoscoEc3Row
    /\ (pc = "done" /\ table = C2_CoscoExampleTable)
          => C2_CoscoNew = <<C2_CoscoExampleRecord>>
    /\ (pc = "done" /\ table = <<CoscoHeaderRow, CoscoEc3Row, CoscoExampleRow2>>)
          => C2_CoscoNew = << >>

\* the example table was scanned to the end and gave its record
C2_Witness ==
    /\ pc = "done"
    /\ table = C2_CoscoExampleTable
    /\ schedules = <<C2_CoscoExampleRecord>>


---------------------------------------------------------------------------
(* Claims about parse_sitc_excel                                           *)

\* the entries that passed the emission test, in order
C3_Emitted == SelectSeq(cand, LAMBDA c : Emits(c.rec))

\* the data row a row number of the worksheet names
C3_Row(r) == ws.rows[r - 4]

\* service, T/S port and transit time of the headers of the model
C3_SheetWide(a1) ==
    CASE a1 = TxtCell(<<"C", "B", "X", "2", " ", "D", "I", "R", "E", "C", "T", " ", "S", "E", "R", "V", "I", "C", "E">>) ->
             [Service |-> <<"C", "B", "X", "2">>, TSPort |-> <<"D", "I", "R", "E", "C", "T">>, TransitTime |-> <<"1", "1">>]
      [] a1 = TxtCell(<<"s", "i", "t", "c", " ", "V", "T", "X", "1", "S", " ", "(", "D", "i", "r", "e", "c", "t", " ", "c", "a", "l", "l", ")">>) ->
             [Service |-> <<"V", "T", "X", "1", "S">>, TSPort |-> <<"D", "I", "R", "E", "C", "T">>, TransitTime |-> <<"9">>]
      [] a1 = NoCell ->
             [Service |-> << >>, TSPort |-> << >>, TransitTime |-> << >>]

C3_ExampleRecord ==
    [CARRIER     |-> "SITC",
     Service     |-> <<"C", "B", "X", "2">>,
     Vessel      |-> <<"S", "I", "T", "C", " ", "H", "U", "I", "M", "I", "N", "G">>,
     Voyage      |-> <<"2", "6", "0", "2", "S">>,
     ETD         |-> <<"0", "2", "-", "1", "8">>,
     ETA         |-> <<"0", "3", "-", "0", "1">>,
     TransitTime |-> <<"1", "1">>,
     TSPort      |-> <<"D", "I", "R", "E", "C", "T">>]

C3_ExampleHeader ==
    [A1 |-> TxtCell(<<"C", "B", "X", "2", " ", "D", "I", "R", "E", "C", "T", " ", "S", "E", "R", "V", "I", "C", "E">>), D4 |-> TxtCell(<<"1", "1", " ", "d", "a", "y", "s">>)]

(* C3: all records of one worksheet carry the same service, T/S port and   *)
(* transit time, the ones read from A1 and from the metadata cell of row   *)
(* 4, while vessel, voyage, ETD and ETA are read from columns 1 to 4 of    *)
(* the record's own row, a row from 5 on; header "CBX2 DIRECT SERVICE",    *)
(* metadata "11 days" and row [SITC HUIMING, 2602S, 2026-02-18,            *)
(* 2026-03-01] give {SITC, CBX2, SITC HUIMING, 2602S, 02-18, 03-01, 11,    *)
(* DIRECT}.                                                                *)
C3_SheetWideValues ==
    /\ Len(schedules) = Len(C3_Emitted)
    /\ \A n \in 1..Len(schedules) :
          LET r   == C3_Emitted[n].row
              rec == schedules[n]
          IN  /\ r >= 5
              /\ rec.CARRIER = "SITC"
              /\ rec.Service = C3_SheetWide(ws.A1).Service
              /\ rec.TSPort = C3_SheetWide(ws.A1).TSPort
              /\ rec.TransitTime = C3_SheetWide(ws.A1).TransitTime
              /\ rec.Vessel = Strip(TextOrEmpty(C3_Row(r)[1]))
              /\ rec.Voyage = Strip(TextOrEmpty(C3_Row(r)[2]))
              /\ rec.ETD = SitcEtd(C3_Row(r)[3])
              /\ rec.ETA = SitcEta(C3_Row(r)[4])
    /\ \A m, n \in 1..Len(schedules) :
          /\ schedules[m].Service = schedules[n].Service
          /\ schedules[m].TSPort = schedules[n].TSPort
          /\ schedules[m].TransitTime = schedules[n].TransitTime
    /\ (pc = "done" /\ [A1 |-> ws.A1, D4 |-> ws.D4] = C3_ExampleHeader
          /\ ws.rows = <<SitcExampleRow>>)
         => schedules = <<C3_ExampleRecord>>

\* the sheet of the example followed by a row of numeric cells: two records
C3_Witness ==
    /\ pc = "done"
    /\ [A1 |-> ws.A1, D4 |-> ws.D4] = C3_ExampleHeader
    /\ ws.rows = <<SitcExampleRow, SitcSerialRow>>
    /\ Len(schedules) = 2
    /\ schedules[1] = C3_ExampleRecord

\* the conditions under which a data row yields no record
C4_Skipped(row) ==
    \/ Contains(Lower(Strip(TextOrEmpty(row[1]))), <<"s", "k", "i", "p">>)
    \/ row[4] # NoCell /\ Contains(PyStr(row[4]), <<"S", "K", "I", "P">>)
    \/ Strip(TextOrEmpty(row[1])) = << >>
    \/ Strip(TextOrEmpty(row[2])) = << >>

\* the rows the loop has gone through
C4_RowsRead == 5..(row_idx - 1)

\* a row has a record in the result
C4_HasRecord(r) == \E n \in 1..Len(cand) : cand[n].row = r /\ Emits(cand[n].rec)

(* C4: a data row yields no record if its vessel contains SKIP in any      *)
(* letter case, or its raw ETA rendered as text contains SKIP, or its      *)
(* vessel or voyage is empty; whether a row yields a record depends on the *)
(* row alone, never on the rows skipped around it.                         *)
C4_RowSkipping ==
    pc \in {"sitc_rows", "done"} =>
      /\ \A r \in C4_RowsRead : C4_Skipped(C3_Row(r)) => ~C4_HasRecord(r)
      /\ \A r \in C4_RowsRead :
            C4_HasRecord(r) <=> (~SitcSkips(C3_Row(r)) /\ SitcEtd(C3_Row(r)[3]) # << >>)
      /\ Len(schedules) = Cardinality({r \in C4_RowsRead : C4_HasRecord(r)})

\* a row between two skipped rows is emitted
C4_Witness ==
    /\ pc = "done"
    /\ ws.rows = <<SitcSkipVesselRow, SitcExampleRow, SitcSkipEtaRow>>
    /\ Len(schedules) = 1
    /\ schedules[1].Vessel = <<"S", "I", "T", "C", " ", "H", "U", "I", "M", "I", "N", "G">>

---------------------------------------------------------------------------
(* process_schedules and the Start Processing handler of the app: the      *)
(* files one after the other, then deduplication and the sort by ETD.      *)
(* A file is its name and what each extractor does with its content: a     *)
(* list of records, or an exception.                                       *)

\* what a parser that raises gives
Raised == <<[exception |-> TRUE]>>

Schedule(carrier, svc, vessel, voyage, etd, eta, tt, ts) ==
    [CARRIER     |-> carrier,
     Service     |-> svc,
     Vessel      |-> vessel,
     Voyage      |-> voyage,
     ETD         |-> etd,
     ETA         |-> eta,
     TransitTime |-> tt,
     TSPort      |-> ts]

CoscoFeb15 ==
    Schedule("COSCO", <<"H", "P", "X", "2">>, <<"M", "T", "T", " ", "S", "E", "N", "A", "R", "I">>, <<"0", "2", "9", "S">>, <<"0", "2", "-", "1", "5">>, <<"0", "2", "-", "2", "6">>, <<"1", "1">>, <<"P", "o", "r", "t", " ", "k", "e", "l", "a", "n", "g">>)

CoscoMar01 ==
    Schedule("COSCO", <<"H", "P", "X", "2">>, <<"C", "S", "C", "L", " ", "A", "S", "I", "A">>, <<"1", "0", "1", "N">>, <<"0", "3", "-", "0", "1">>, <<"0", "3", "-", "1", "2">>, <<"1", "1">>, <<"N", "o", "n", "e">>)

OneFeb15 ==
    Schedule("ONE", <<"P", "N", "2">>, <<"O", "N", "E", " ", "H", "A", "R", "B", "O", "U", "R">>, <<"0", "4", "1", "E">>, <<"0", "2", "-", "1", "5">>, <<"0", "2", "-", "2", "4">>, <<"9">>, <<"T", "R", "A", "N", "S", "S", "H", "I", "P", "M", "E", "N", "T">>)

OneJan20 ==
    Schedule("ONE", << >>, <<"O", "N", "E", " ", "H", "O", "P", "E">>, <<"0", "5", "2", "E">>, <<"0", "1", "-", "2", "0">>, <<"0", "1", "-", "3", "1">>, <<"1", "1">>, << >>)

SitcFeb18 ==
    Schedule("SITC", <<"C", "B", "X", "2">>, <<"S", "I", "T", "C", " ", "H", "U", "I", "M", "I", "N", "G">>, <<"2", "6", "0", "2", "S">>, <<"0", "2", "-", "1", "8">>, <<"0", "3", "-", "0", "1">>, <<"1", "1">>, <<"D", "I", "R", "E", "C", "T">>)

\* a COSCO PDF whose name says so
FileCoscoNamed ==
    [name |-> <<"C", "O", "S", "C", "O", "_", "f", "e", "b", ".", "p", "d", "f">>, cosco |-> <<CoscoFeb15, CoscoMar01>>, one |-> << >>, sitc |-> Raised]

\* a COSCO PDF whose name says nothing, with a record FileCoscoNamed has too
FileCoscoPlain ==
    [name |-> <<"h", "p", "x", "2", ".", "P", "D", "F">>, cosco |-> <<CoscoFeb15>>, one |-> << >>, sitc |-> Raised]

\* a ONE PDF whose name says nothing
FileOnePlain ==
    [name |-> <<"w", "e", "e", "k", "7", ".", "p", "d", "f">>, cosco |-> << >>, one |-> <<OneFeb15, OneJan20>>, sitc |-> Raised]

\* a SITC workbook
FileSitc ==
    [name |-> <<"s", "i", "t", "c", "_", "f", "e", "b", ".", "x", "l", "s", "x">>, cosco |-> Raised, one |-> Raised, sitc |-> <<SitcFeb18>>]

\* a PDF no extractor can open
FileBroken ==
    [name |-> <<"s", "c", "a", "n", ".", "p", "d", "f">>, cosco |-> Raised, one |-> Raised, sitc |-> Raised]

\* a ONE PDF in which parse_cosco_pdf fails
FileOneOdd ==
    [name |-> <<"v", "o", "y", "a", "g", "e", ".", "p", "d", "f">>, cosco |-> Raised, one |-> <<OneJan20>>, sitc |-> Raised]

\* a SITC workbook whose name says nothing
FileSitcPlain ==
    [name |-> <<"b", "o", "o", "k", ".", "x", "l", "s">>, cosco |-> Raised, one |-> Raised, sitc |-> <<SitcFeb18>>]

Files ==
    {FileCoscoNamed, FileCoscoPlain, FileOnePlain, FileOneOdd, FileSitc, FileSitcPlain,
     FileBroken}

MaxFiles == 2

\* the entries of the carrier selectbox
Carriers == {"Auto-detect", "COSCO", "ONE", "SITC"}

FileNames(fs) == {fs[n].name : n \in 1..Len(fs)}

\* 'COSCO' in file_name.upper() and the like
NameHas(name, word) == Contains(Upper(name), word)

\* file_name.lower().endswith(('.xlsx', '.xls'))
IsExcel(name) ==
    EndsWith(Lower(name), <<".", "x", "l", "s", "x">>) \/ EndsWith(Lower(name), <<".", "x", "l", "s">>)

\* file_name.lower().endswith('.pdf')
IsPdf(name) == EndsWith(Lower(name), <<".", "p", "d", "f">>)

\* try: schedules = parse(...) except: pass
Tried(result) == IF result = Raised THEN << >> ELSE result

\* process_schedules, lines 310-351: the schedules of one file
ProcessSchedulesOf(f, carrier) ==
    LET is_excel == IsExcel(f.name)
        is_pdf   == IsPdf(f.name)
        first    == Tried(f.cosco)
        attempt  ==
            IF carrier = "SITC" \/ NameHas(f.name, <<"S", "I", "T", "C">>)
            THEN (IF is_excel THEN f.sitc ELSE << >>)
            ELSE IF carrier = "COSCO" \/ NameHas(f.name, <<"C", "O", "S", "C", "O">>)
            THEN (IF is_pdf THEN f.cosco ELSE << >>)
            ELSE IF carrier = "ONE" \/ NameHas(f.name, <<"O", "N", "E">>)
            THEN (IF is_pdf THEN f.one ELSE << >>)
            ELSE IF is_pdf
            THEN (IF first = << >> THEN Tried(f.one) ELSE first)
            ELSE IF is_excel
            THEN Tried(f.sitc)
            ELSE << >>
    IN  IF attempt = Raised THEN << >> ELSE attempt

\* process_schedules, lines 315-348: the extractors called for one file
ProcessInvokedOf(f, carrier) ==
    IF carrier = "SITC" \/ NameHas(f.name, <<"S", "I", "T", "C">>)
    THEN (IF IsExcel(f.name) THEN <<"parse_sitc_excel">> ELSE << >>)
    ELSE IF carrier = "COSCO" \/ NameHas(f.name, <<"C", "O", "S", "C", "O">>)
    THEN (IF IsPdf(f.name) THEN <<"parse_cosco_pdf">> ELSE << >>)
    ELSE IF carrier = "ONE" \/ NameHas(f.name, <<"O", "N", "E">>)
    THEN (IF IsPdf(f.name) THEN <<"parse_one_pdf">> ELSE << >>)
    ELSE IF IsPdf(f.name)
    THEN (IF Tried(f.cosco) = << >>
          THEN <<"parse_cosco_pdf", "parse_one_pdf">>
          ELSE <<"parse_cosco_pdf">>)
    ELSE IF IsExcel(f.name)
    THEN <<"parse_sitc_excel">>
    ELSE << >>

\* app.py, lines 175-190: the extractors called for one file
HandlerInvokedOf(f, carrier) ==
    IF carrier = "COSCO" \/ NameHas(f.name, <<"C", "O", "S", "C", "O">>)
    THEN <<"parse_cosco_pdf">>
    ELSE IF carrier = "ONE" \/ NameHas(f.name, <<"O", "N", "E">>)
    THEN <<"parse_one_pdf">>
    ELSE IF carrier = "SITC" \/ NameHas(f.name, <<"S", "I", "T", "C">>)
    THEN <<"parse_sitc_excel">>
    ELSE IF IsPdf(f.name)
    THEN (IF f.cosco = Raised
          THEN <<"parse_cosco_pdf", "parse_one_pdf">>
          ELSE <<"parse_cosco_pdf">>)
    ELSE IF IsExcel(f.name)
    THEN <<"parse_sitc_excel">>
    ELSE << >>

\* app.py, lines 172-190: the schedules of one file, or the exception
HandlerSchedulesOf(f, carrier) ==
    IF carrier = "COSCO" \/ NameHas(f.name, <<"C", "O", "S", "C", "O">>)
    THEN f.cosco
    ELSE IF carrier = "ONE" \/ NameHas(f.name, <<"O", "N", "E">>)
    THEN f.one
    ELSE IF carrier = "SITC" \/ NameHas(f.name, <<"S", "I", "T", "C">>)
    THEN f.sitc
    ELSE IF IsPdf(f.name)
    THEN (IF f.cosco = Raised THEN f.one ELSE f.cosco)
    ELSE IF IsExcel(f.name)
    THEN f.sitc
    ELSE << >>

\* all_schedules.extend(schedules)
Extend(list, items) == list \o items

\* a deduplication that keeps the last occurrence
DropDuplicatesKeepLast(frame) ==
    LET kept == {n \in 1..Len(frame) : \A m \in (n + 1)..Len(frame) : frame[m] # frame[n]}
        F[n \in 0..Len(frame)] ==
            IF n = 0 THEN << >>
            ELSE IF n \in kept THEN Append(F[n - 1], frame[n]) ELSE F[n - 1]
    IN  F[Len(frame)]

\* df.drop_duplicates(): a row that equals an earlier row is dropped
DropDuplicates(frame) ==
    LET kept == {n \in 1..Len(frame) : \A m \in 1..(n - 1) : frame[m] # frame[n]}
        F[n \in 0..Len(frame)] ==
            IF n = 0 THEN << >>
            ELSE IF n \in kept THEN Append(F[n - 1], frame[n]) ELSE F[n - 1]
    IN  F[Len(frame)]

\* ord(c) of the characters of an ETD
Ord(c) ==
    CASE c = "-" -> 45
      [] c \in Digits -> 48 + (CHOOSE d \in 0..9 : DigitChars[d + 1] = c)
      [] OTHER -> 32

RECURSIVE StrLess(_, _)
\* a < b of two str
StrLess(a, b) ==
    IF b = << >> THEN FALSE
    ELSE IF a = << >> THEN TRUE
    ELSE IF Head(a) = Head(b) THEN StrLess(Tail(a), Tail(b))
    ELSE Ord(Head(a)) < Ord(Head(b))

\* a frame without its row n
WithoutRow(frame, n) == SubSeq(frame, 1, n - 1) \o SubSeq(frame, n + 1, Len(frame))

RECURSIVE SortValues(_)
(* df.sort_values('ETD').reset_index(drop=True): the rows in ascending     *)
(* order of ETD.  The sort is pandas' default, kind='quicksort', which is  *)
(* not a stable sort: rows of equal ETD come out in any order.             *)
SortValues(frame) ==
    IF frame = << >> THEN {<< >>}
    ELSE LET least == {n \in 1..Len(frame) :
                          \A m \in 1..Len(frame) : ~StrLess(frame[m].ETD, frame[n].ETD)}
         IN  UNION {{<<frame[n]>> \o rest : rest \in SortValues(WithoutRow(frame, n))} :
                       n \in least}

\* process_schedules, lines 303-353: one file of the loop
ProcessFile ==
    /\ pc = "files" /\ caller = "process_schedules"
    /\ LET f == files_data[file_no]
           found == ProcessSchedulesOf(f, carrier_mapping[f.name])
       IN  /\ all_schedules' = Extend(all_schedules, found)
           /\ contrib' = Append(contrib, found)
           /\ invoked' = Append(invoked, ProcessInvokedOf(f, carrier_mapping[f.name]))
    /\ file_no' = file_no + 1
    /\ pc' = IF file_no < Len(files_data) THEN "files" ELSE "frame"
    /\ UNCHANGED <<caller, files_data, carrier_mapping, remove_duplicates, df,
                   runs, session_state, extractVars, dateVars, filterVars>>

\* process_schedules, lines 355-363: the DataFrame, deduplicated
ProcessFrame ==
    /\ pc = "frame" /\ caller = "process_schedules"
    /\ IF all_schedules = << >>
       THEN df' = << >> /\ pc' = "done"
       ELSE /\ df' = IF remove_duplicates THEN DropDuplicates(all_schedules)
                     ELSE all_schedules
            /\ pc' = "sort"
    /\ UNCHANGED <<caller, files_data, carrier_mapping, remove_duplicates, file_no,
                   all_schedules, contrib, invoked, runs, session_state, extractVars,
                   dateVars, filterVars>>

\* process_schedules, lines 365-368: the sort, and the return
ProcessSort ==
    /\ pc = "sort" /\ caller = "process_schedules"
    /\ df' \in SortValues(df)
    /\ pc' = "done"
    /\ UNCHANGED <<caller, files_data, carrier_mapping, remove_duplicates, file_no,
                   all_schedules, contrib, invoked, runs, session_state, extractVars,
                   dateVars, filterVars>>

\* how a run of the handler ended: with an exception or not, and the dataset
\* it yielded
Ended(exc, frame) == [raised |-> exc, df |-> frame]

\* app.py, lines 171-192: one file of the loop; an exception ends the run
HandlerFile ==
    /\ pc = "files" /\ caller = "app"
    /\ LET f == files_data[file_no]
           found == HandlerSchedulesOf(f, carrier_mapping[f.name])
       IN  /\ invoked' = Append(invoked, HandlerInvokedOf(f, carrier_mapping[f.name]))
           /\ IF found = Raised
              THEN /\ pc' = "failed"
                   /\ runs' = Append(runs, Ended(TRUE, << >>))
                   /\ UNCHANGED <<all_schedules, contrib, file_no>>
              ELSE /\ all_schedules' = Extend(all_schedules, found)
                   /\ contrib' = Append(contrib, found)
                   /\ file_no' = file_no + 1
                   /\ pc' = IF file_no < Len(files_data) THEN "files" ELSE "frame"
                   /\ UNCHANGED runs
    /\ UNCHANGED <<caller, files_data, carrier_mapping, remove_duplicates, df,
                   session_state, extractVars, dateVars, filterVars>>

\* the handler without the test of line 197: an empty DataFrame is stored too
HandlerFrameStoresEmpty ==
    /\ pc = "frame" /\ caller = "app"
    /\ IF all_schedules = << >>
       THEN /\ df' = << >>
            /\ pc' = "done"
            /\ runs' = Append(runs, Ended(FALSE, << >>))
            /\ session_state' = [processed |-> TRUE, df |-> << >>]
       ELSE /\ df' = IF remove_duplicates THEN DropDuplicates(all_schedules)
                     ELSE all_schedules
            /\ pc' = "sort"
            /\ UNCHANGED <<runs, session_state>>
    /\ UNCHANGED <<caller, files_data, carrier_mapping, remove_duplicates, file_no,
                   all_schedules, contrib, invoked, extractVars, dateVars, filterVars>>

\* app.py, lines 194-200 and 213-214: the DataFrame, deduplicated
HandlerFrame ==
    /\ pc = "frame" /\ caller = "app"
    /\ IF all_schedules = << >>
       THEN /\ df' = << >>
            /\ pc' = "done"
            /\ runs' = Append(runs, Ended(FALSE, << >>))
       ELSE /\ df' = IF remove_duplicates THEN DropDuplicates(all_schedules)
                     ELSE all_schedules
            /\ pc' = "sort"
            /\ UNCHANGED runs
    /\ UNCHANGED <<caller, files_data, carrier_mapping, remove_duplicates, file_no,
                   all_schedules, contrib, invoked, session_state, extractVars, dateVars,
                   filterVars>>

\* app.py, lines 202-209: the sort, and the result into the session state
HandlerSort ==
    /\ pc = "sort" /\ caller = "app"
    /\ df' \in SortValues(df)
    /\ session_state' = [processed |-> TRUE, df |-> df']
    /\ runs' = Append(runs, Ended(FALSE, df'))
    /\ pc' = "done"
    /\ UNCHANGED <<caller, files_data, carrier_mapping, remove_duplicates, file_no,
                   all_schedules, contrib, invoked, extractVars, dateVars,
                   filterVars>>

InitAgg ==
    /\ caller \in {"process_schedules", "app"}
    /\ files_data \in SeqsUpTo(Files, MaxFiles)
    /\ caller = "app" => files_data # << >>
    /\ carrier_mapping \in [FileNames(files_data) -> Carriers]
    /\ remove_duplicates \in BOOLEAN
    /\ file_no = 1
    /\ pc = IF files_data = << >> THEN "frame" ELSE "files"
    /\ all_schedules = << >>
    /\ contrib = << >>
    /\ invoked = << >>
    /\ runs = << >>
    /\ df = << >>
    /\ session_state = [processed |-> FALSE, df |-> << >>]
    /\ IdleExtract
    /\ IdleDate
    /\ IdleFilter

NextAgg ==
    \/ ProcessFile
    \/ ProcessFrame
    \/ ProcessSort
    \/ HandlerFile
    \/ HandlerFrame
    \/ HandlerSort

SpecAgg == InitAgg /\ [][NextAgg]_vars

(* The dashboard session: Start Processing pressed again and again, each   *)
(* time over the files then uploaded, the session state kept in between.   *)

\* the largest number of runs of a session
MaxRuns == 3

\* what is uploaded when the button is pressed
SessionBatches ==
    {<<FileCoscoPlain>>, <<FileSitcPlain>>, <<FileOnePlain>>, <<FileBroken>>,
     <<FileSitcPlain, FileBroken>>, <<FileCoscoPlain, FileSitcPlain>>}

\* app.py, lines 162-172: the button pressed, the handler starts over the files
StartProcessing(batch, dedupe) ==
    /\ pc \in {"idle", "done", "failed"} /\ caller = "app"
    /\ Len(runs) < MaxRuns
    /\ files_data' = batch
    /\ carrier_mapping' = [n \in FileNames(batch) |-> "Auto-detect"]
    /\ remove_duplicates' = dedupe
    /\ file_no' = 1
    /\ all_schedules' = << >>
    /\ contrib' = << >>
    /\ invoked' = << >>
    /\ df' = << >>
    /\ pc' = "files"
    /\ UNCHANGED <<caller, runs, session_state, extractVars, dateVars, filterVars>>

\* app.py, lines 224 and 329: the preview and export tabs show a dataset
TabsEnabled == session_state.processed

\* app.py, lines 225 and 330: the dataset the tabs show
TabsDataset == session_state.df

\* a session just opened: nothing processed, nothing stored
InitSession ==
    /\ pc = "idle"
    /\ caller = "app"
    /\ files_data = << >>
    /\ carrier_mapping = << >>
    /\ remove_duplicates = FALSE
    /\ file_no = 0
    /\ all_schedules = << >>
    /\ contrib = << >>
    /\ invoked = << >>
    /\ runs = << >>
    /\ df = << >>
    /\ session_state = [processed |-> FALSE, df |-> << >>]
    /\ IdleExtract
    /\ IdleDate
    /\ IdleFilter

NextSession ==
    \/ \E batch \in SessionBatches, dedupe \in BOOLEAN : StartProcessing(batch, dedupe)
    \/ HandlerFile
    \/ HandlerFrame
    \/ HandlerSort

SpecSession == InitSession /\ [][NextSession]_vars

---------------------------------------------------------------------------
(* Claims about the aggregation                                            *)

RECURSIVE C8_Concat(_)
\* the lists of a list of lists, one after the other
C8_Concat(lists) ==
    IF lists = << >> THEN << >> ELSE Head(lists) \o C8_Concat(Tail(lists))

\* what the extractor the file is given to returns for each file processed
C8_PerFile ==
    [n \in 1..Len(contrib) |->
        IF caller = "app"
        THEN HandlerSchedulesOf(files_data[n], carrier_mapping[files_data[n].name])
        ELSE ProcessSchedulesOf(files_data[n], carrier_mapping[files_data[n].name])]

\* the row of a frame a record first stands in
C8_First(frame, r) == Least({n \in 1..Len(frame) : frame[n] = r})

\* how many rows of a frame are a record
C8_Copies(frame, r) == Cardinality({n \in 1..Len(frame) : frame[n] = r})

(* C8: before the sort the dataset is the concatenation of the record      *)
(* lists of the files in processing order; with deduplication every record *)
(* equal to an earlier one on all eight fields is removed, the first       *)
(* occurrence kept and the order of the remaining records preserved, so    *)
(* two files with an identical record give one copy of it; without         *)
(* deduplication both copies remain.                                       *)
C8_MergeAndDedupe ==
    /\ pc # "failed" => contrib = C8_PerFile
    /\ all_schedules = C8_Concat(contrib)
    /\ pc = "sort" =>
          IF remove_duplicates
          THEN /\ \A n \in 1..Len(all_schedules) : C8_Copies(df, all_schedules[n]) = 1
               /\ \A n \in 1..Len(df) : C8_Copies(all_schedules, df[n]) >= 1
               /\ \A m, n \in 1..Len(df) :
                     m < n => C8_First(all_schedules, df[m]) < C8_First(all_schedules, df[n])
          ELSE df = all_schedules
    /\ (pc = "sort" /\ contrib = <<(<<CoscoFeb15, CoscoMar01>>), (<<CoscoFeb15>>)>>)
         => C8_Copies(df, CoscoFeb15) = IF remove_duplicates THEN 1 ELSE 2

\* two files with the record CoscoFeb15, deduplicated
C8_Witness ==
    /\ pc = "sort"
    /\ remove_duplicates
    /\ contrib = <<(<<CoscoFeb15, CoscoMar01>>), (<<CoscoFeb15>>)>>
    /\ df = <<CoscoFeb15, CoscoMar01>>

\* the dataset before the sort
C9_Merged == IF remove_duplicates THEN DropDuplicates(all_schedules) ELSE all_schedules

\* the rows of a frame a record stands in
C9_Rows(frame, r) == {n \in 1..Len(frame) : frame[n] = r}

\* the sort has run
C9_Sorted == pc = "done" /\ all_schedules # << >>

C9_IsPermutation ==
    /\ Len(df) = Len(C9_Merged)
    /\ \A n \in 1..Len(df) :
          Cardinality(C9_Rows(df, df[n])) = Cardinality(C9_Rows(C9_Merged, df[n]))

C9_IsAscending == \A m, n \in 1..Len(df) : m < n => ~StrLess(df[n].ETD, df[m].ETD)

\* records of equal ETD stand in the order they had before the sort
C9_IsStable ==
    \A m, n \in 1..Len(df) :
        (m < n /\ df[m].ETD = df[n].ETD /\ df[m] # df[n])
          => Least(C9_Rows(C9_Merged, df[m])) < Least(C9_Rows(C9_Merged, df[n]))

---------------------------------------------------------------------------
(* filter_by_month of the app                                              *)

MonthNames ==
    <<"January", "February", "March", "April", "May", "June", "July",
      "August", "September", "October", "November", "December">>

\* month_map.get(name, 0)
month_map(name) ==
    IF \E n \in 1..12 : MonthNames[n] = name
    THEN CHOOSE n \in 1..12 : MonthNames[n] = name
    ELSE 0

\* s.split('-')[0]
SplitHead(s) ==
    IF \E p \in 1..Len(s) : s[p] = "-"
    THEN SubSeq(s, 1, Least({p \in 1..Len(s) : s[p] = "-"}) - 1)
    ELSE s

RECURSIVE ToInt(_)
\* int(s) of a text of digits
ToInt(s) ==
    IF s = << >> THEN 0
    ELSE 10 * ToInt(SubSeq(s, 1, Len(s) - 1)) + (Ord(s[Len(s)]) - 48)

\* a range test that takes the end month as a start month too
KeepsMonthNoWrap(month, start_num, end_num) ==
    IF start_num > 0 /\ end_num > 0
    THEN month >= start_num /\ month <= end_num
    ELSE IF start_num > 0 THEN month >= start_num
    ELSE IF end_num > 0 THEN month <= end_num
    ELSE TRUE

\* lines 65-78: the row mask
KeepsMonth(month, start_num, end_num) ==
    IF start_num > 0 /\ end_num > 0
    THEN IF start_num <= end_num
         THEN month >= start_num /\ month <= end_num
         ELSE month >= start_num \/ month <= end_num
    ELSE IF start_num > 0 THEN month >= start_num
    ELSE IF end_num > 0 THEN month <= end_num
    ELSE TRUE

filter_by_month(frame, start, end) ==
    LET start_num == month_map(start)
        end_num   == month_map(end)
    IN  IF frame = << >> THEN frame
        ELSE IF start_num = 0 /\ end_num = 0 THEN frame
        ELSE SelectSeq(frame,
                 LAMBDA r : KeepsMonth(ToInt(SplitHead(r.ETD)), start_num, end_num))

CoscoJun10 ==
    Schedule("COSCO", <<"H", "P", "X", "2">>, <<"X", "I", "N", " ", "S", "H", "A", "N", "G", "H", "A", "I">>, <<"1", "0", "0", "N">>, <<"0", "6", "-", "1", "0">>, <<"0", "6", "-", "2", "1">>, <<"1", "1">>, <<"S", "i", "n", "g", "a", "p", "o", "r", "e">>)

SitcDec24 ==
    Schedule("SITC", <<"C", "B", "X", "2">>, <<"S", "I", "T", "C", " ", "M", "O", "J", "I">>, <<"2", "6", "5", "2", "S">>, <<"1", "2", "-", "2", "4">>, <<"0", "1", "-", "0", "4">>, <<"1", "1">>, <<"D", "I", "R", "E", "C", "T">>)

\* the rows a DataFrame to filter is made of: months 1, 2, 6 and 12
FilterRows == {OneJan20, CoscoFeb15, CoscoJun10, SitcDec24}

MaxFrame == 3

\* the entries of the month selectboxes
MonthChoices == {"All"} \cup {MonthNames[n] : n \in 1..12}

\* the app calls filter_by_month(df, start_month, end_month)
FilterByMonth ==
    /\ pc = "filter"
    /\ filtered' = filter_by_month(df, start_month, end_month)
    /\ pc' = "done"
    /\ UNCHANGED <<start_month, end_month, aggVars, extractVars, dateVars>>

InitFilter ==
    /\ pc = "filter"
    /\ df \in SeqsUpTo(FilterRows, MaxFrame)
    /\ start_month \in MonthChoices
    /\ end_month \in MonthChoices
    /\ filtered = << >>
    /\ caller = ""
    /\ files_data = << >>
    /\ carrier_mapping = << >>
    /\ remove_duplicates = FALSE
    /\ file_no = 0
    /\ all_schedules = << >>
    /\ contrib = << >>
    /\ invoked = << >>
    /\ runs = << >>
    /\ session_state = [processed |-> TRUE, df |-> df]
    /\ IdleExtract
    /\ IdleDate

NextFilter == FilterByMonth

SpecFilter == InitFilter /\ [][NextFilter]_vars

---------------------------------------------------------------------------
(* Claims about filter_by_month                                            *)

\* the number a month selection stands for, 0 for "All"
C10_Number(choice) ==
    CASE choice = "All" -> 0
      [] choice = "January" -> 1
      [] choice = "February" -> 2
      [] choice = "March" -> 3
      [] choice = "April" -> 4
      [] choice = "May" -> 5
      [] choice = "June" -> 6
      [] choice = "July" -> 7
      [] choice = "August" -> 8
      [] choice = "September" -> 9
      [] choice = "October" -> 10
      [] choice = "November" -> 11
      [] choice = "December" -> 12

\* the integer value of the leading two characters of an ETD
C10_Month(etd) ==
    10 * (CHOOSE d \in 0..9 : DigitChars[d + 1] = etd[1])
      + (CHOOSE d \in 0..9 : DigitChars[d + 1] = etd[2])

\* the records of a month range
C10_Keeps(m, start, end) ==
    CASE start > 0 /\ end = 0 -> m >= start
      [] start = 0 /\ end > 0 -> m <= end
      [] start > 0 /\ end > 0 /\ start <= end -> start <= m /\ m <= end
      [] start > 0 /\ end > 0 /\ start > end -> m >= start \/ m <= end
      [] start = 0 /\ end = 0 -> TRUE

(* C10: with m the integer value of the leading two characters of ETD,     *)
(* filter_by_month returns exactly the input records, in input order, for  *)
(* which m >= start (start only), m <= end (end only), start <= m <= end   *)
(* (both, start <= end), m >= start or m <= end (both, start > end), and   *)
(* every record when no bound is set; February to February keeps month 2   *)
(* only, December to February keeps months 12 and 2 and not month 6.       *)
C10_MonthRange ==
    pc = "done" =>
      /\ filtered = SelectSeq(df, LAMBDA r :
             C10_Keeps(C10_Month(r.ETD), C10_Number(start_month), C10_Number(end_month)))
      /\ (start_month = "February" /\ end_month = "February")
           => \A n \in 1..Len(filtered) : filtered[n] = CoscoFeb15
      /\ (start_month = "December" /\ end_month = "February"
            /\ df = <<CoscoJun10, SitcDec24, CoscoFeb15>>)
           => filtered = <<SitcDec24, CoscoFeb15>>

\* December to February on a frame of the months 6, 12 and 2
C10_Witness ==
    /\ pc = "done"
    /\ start_month = "December" /\ end_month = "February"
    /\ df = <<CoscoJun10, SitcDec24, CoscoFeb15>>
    /\ filtered = <<SitcDec24, CoscoFeb15>>

---------------------------------------------------------------------------
(* Claims about the handling of a file that cannot be parsed               *)

\* the extractor a caller gives file f to raises, and no other is tried
\* with success
C11_ParsingRaises(f, carrier) ==
    IF caller = "app"
    THEN HandlerSchedulesOf(f, carrier) = Raised
    ELSE LET tagged == \/ carrier \in {"SITC", "COSCO", "ONE"}
                       \/ NameHas(f.name, <<"S", "I", "T", "C">>)
                       \/ NameHas(f.name, <<"C", "O", "S", "C", "O">>)
                       \/ NameHas(f.name, <<"O", "N", "E">>)
         IN  IF tagged
             THEN \/ (carrier = "SITC" \/ NameHas(f.name, <<"S", "I", "T", "C">>))
                       /\ IsExcel(f.name) /\ f.sitc = Raised
                  \/ ~(carrier = "SITC" \/ NameHas(f.name, <<"S", "I", "T", "C">>))
                       /\ (carrier = "COSCO" \/ NameHas(f.name, <<"C", "O", "S", "C", "O">>))
                       /\ IsPdf(f.name) /\ f.cosco = Raised
                  \/ ~(carrier = "SITC" \/ NameHas(f.name, <<"S", "I", "T", "C">>))
                       /\ ~(carrier = "COSCO" \/ NameHas(f.name, <<"C", "O", "S", "C", "O">>))
                       /\ IsPdf(f.name) /\ f.one = Raised
             ELSE \/ IsPdf(f.name) /\ f.cosco \in {Raised, << >>} /\ f.one = Raised
                  \/ ~IsPdf(f.name) /\ IsExcel(f.name) /\ f.sitc = Raised

\* the file loop is over
C11_LoopOver == pc \in {"frame", "sort", "done", "failed"}

(* C11: in process_schedules and in the Start Processing handler, when the *)
(* parsing of file k raises, file k contributes no record, every file      *)
(* after k is still parsed, and the records of all the other files are in  *)
(* the resulting dataset.                                                  *)
C11_ErrorIsolation ==
    C11_LoopOver =>
      /\ Len(contrib) = Len(files_data)
      /\ \A k \in 1..Len(contrib) :
            C11_ParsingRaises(files_data[k], carrier_mapping[files_data[k].name])
              => contrib[k] = << >>
      /\ all_schedules = C8_Concat(contrib)
      /\ pc = "done" =>
            \A k \in 1..Len(contrib) : \A n \in 1..Len(contrib[k]) :
                \E j \in 1..Len(df) : df[j] = contrib[k][n]

---------------------------------------------------------------------------
(* Claims about the choice of the extractor                                *)

\* the carrier selected for the k-th file
C12_Tag(k) == carrier_mapping[files_data[k].name]

\* the extractor of a carrier, and whether a file name fits it
C12_ExtractorOf(tag) ==
    CASE tag = "COSCO" -> "parse_cosco_pdf"
      [] tag = "ONE"   -> "parse_one_pdf"
      [] tag = "SITC"  -> "parse_sitc_excel"

C12_Fits(tag, name) == IF tag = "SITC" THEN IsExcel(name) ELSE IsPdf(name)

(* C12: for every file name, a PDF tagged COSCO is parsed by the COSCO     *)
(* extractor, a PDF tagged ONE by the ONE extractor and a spreadsheet      *)
(* tagged SITC by the SITC extractor; for a tagged file whose payload type *)
(* does not fit its extractor no extractor is invoked, and the file        *)
(* contributes no record.                                                  *)
C12_TaggedResolution ==
    \A k \in 1..Len(invoked) :
        C12_Tag(k) \in {"COSCO", "ONE", "SITC"} =>
          IF C12_Fits(C12_Tag(k), files_data[k].name)
          THEN invoked[k] = <<C12_ExtractorOf(C12_Tag(k))>>
          ELSE /\ invoked[k] = << >>
               /\ k <= Len(contrib)
               /\ contrib[k] = << >>

\* the k-th file is untagged and its name names no carrier
C13_Untagged(k) ==
    /\ C12_Tag(k) = "Auto-detect"
    /\ ~NameHas(files_data[k].name, <<"C", "O", "S", "C", "O">>)
    /\ ~NameHas(files_data[k].name, <<"O", "N", "E">>)
    /\ ~NameHas(files_data[k].name, <<"S", "I", "T", "C">>)

\* an attempt yields a non-empty result
C13_Yields(result) == result # Raised /\ result # << >>

(* C13: for an untagged PDF whose name names no carrier the COSCO          *)
(* extractor is attempted first, and the ONE extractor next exactly when   *)
(* the COSCO attempt raised or returned no record; the file contributes    *)
(* the result of the first attempt that yields records, else nothing; an   *)
(* untagged spreadsheet is given to the SITC extractor only.  In           *)
(* process_schedules and in the Start Processing handler.                  *)
C13_FallbackChain ==
    \A k \in 1..Len(invoked) :
        C13_Untagged(k) =>
          LET f == files_data[k]
          IN  /\ IsPdf(f.name) =>
                   /\ invoked[k] = IF C13_Yields(f.cosco)
                                   THEN <<"parse_cosco_pdf">>
                                   ELSE <<"parse_cosco_pdf", "parse_one_pdf">>
                   /\ k <= Len(contrib)
                   /\ contrib[k] = IF C13_Yields(f.cosco) THEN f.cosco
                                   ELSE IF C13_Yields(f.one) THEN f.one
                                   ELSE << >>
              /\ (~IsPdf(f.name) /\ IsExcel(f.name)) => invoked[k] = <<"parse_sitc_excel">>

---------------------------------------------------------------------------
(* Claims about parse_one_pdf                                              *)

\* the entries that passed the emission test, in order
C14_Emitted == SelectSeq(cand, LAMBDA c : Emits(c.rec))

\* the anchors (0-based) of the page after line a
C14_LaterAnchors(a) == {j \in (a + 1)..(Len(lines) - 1) : IsAnchor(LineAt(lines, j))}

\* the page up to the last line of the entry anchored at a
C14_OwnLines(a) ==
    IF C14_LaterAnchors(a) = {} THEN lines
    ELSE SubSeq(lines, 1, Least(C14_LaterAnchors(a)))

(* C14: on a page with several transit-time anchors, the ETD, ETA, service *)
(* and T/S port of the record emitted for an anchor are determined by the  *)
(* lines of that entry alone, from its anchor to the next anchor; markers  *)
(* of a later entry never set or overwrite them.                           *)
C14_EntryIsolation ==
    \A n \in 1..Len(C14_Emitted) :
        LET c   == C14_Emitted[n]
            own == OneFields(C14_OwnLines(c.anchor), c.anchor)
        IN  /\ c.rec.ETD = own.ETD
            /\ c.rec.ETA = own.ETA
            /\ c.rec.Service = own.Service
            /\ c.rec.TSPort = own.TSPort

\* the page up to the line 20 lines after the anchor at a
C15_Within20(a) == SubSeq(lines, 1, Min(Len(lines), a + 21))

\* a marker line stands among the 20 lines from the anchor on
C15_MarkerInWindow(a, marker) ==
    \E j \in a..(a + 19) : j < Len(lines) /\ Strip(Idx(lines, j)) = marker

(* C15: for an anchor at line i the markers are searched only within the   *)
(* window of up to 20 lines from the anchor, and no line more than 20      *)
(* lines after the anchor, the line read after a marker at the end of the  *)
(* window included, contributes to ETD, ETA, service or T/S port.          *)
C15_LookaheadBound ==
    \A n \in 1..Len(cand) :
        LET c      == cand[n]
            within == OneFields(C15_Within20(c.anchor), c.anchor)
        IN  /\ c.rec = within
            /\ c.rec.TSPort # << >> <=> C15_MarkerInWindow(c.anchor, <<"T", "R", "A", "N", "S", "S", "H", "I", "P", "M", "E", "N", "T">>)
            /\ c.rec.ETD # << >> => C15_MarkerInWindow(c.anchor, <<"O", "r", "i", "g", "i", "n", " ", "D", "e", "s", "t", "i", "n", "a", "t", "i", "o", "n">>)

\* a marker on the last line of the window sets the dates from the line after it,
\* and one on the line after the window is not seen
C15_Witness ==
    /\ pc = "done"
    /\ Len(lines) = 21
    /\ Strip(Idx(lines, 19)) = <<"O", "r", "i", "g", "i", "n", " ", "D", "e", "s", "t", "i", "n", "a", "t", "i", "o", "n">>
    /\ Len(schedules) = 1
    /\ schedules[1].ETD = <<"0", "3", "-", "0", "1">>

\* the first of the lines a+1 .. a+3 of the labelled shape, as <<vessel, voyage>>
C16_FirstShaped(a) ==
    LET J == {j \in (a + 1)..(a + 3) :
                 j < Len(lines) /\ LabelledVessel(LineAt(lines, j)) # << >>}
    IN  IF J = {} THEN << << >>, << >> >>
        ELSE LabelledVessel(LineAt(lines, Least(J)))

\* vessel and voyage of the line after the anchor, read by the labelled path
C16_Labelled(a) ==
    IF a + 1 < Len(lines) /\ LabelledVessel(LineAt(lines, a + 1)) # << >>
    THEN LabelledVessel(LineAt(lines, a + 1))
    ELSE << << >>, << >> >>

(* C16: when the anchor line carries the Vessel / Voyage label, vessel and *)
(* voyage are parsed from the line right after the anchor; the fallback    *)
(* scan runs only when the label is absent, examines up to the next 3      *)
(* lines after the anchor and takes the first line of the vessel/voyage    *)
(* shape the labelled path accepts.                                        *)
C16_VesselResolution ==
    \A n \in 1..Len(cand) :
        LET a == cand[n].anchor
            expected ==
                IF Contains(LineAt(lines, a), <<"V", "e", "s", "s", "e", "l", " ", "/", " ", "V", "o", "y", "a", "g", "e">>)
                THEN C16_Labelled(a)
                ELSE C16_FirstShaped(a)
        IN  <<cand[n].rec.Vessel, cand[n].rec.Voyage>> = expected

---------------------------------------------------------------------------
(* Claims about the row loop of parse_cosco_pdf                            *)

\* the table has a header row and at least 3 rows
C17_Scanned == Len(table) >= 3 /\ \E k \in 1..Len(table) : HasService(table[k])

\* the row is None, empty or shorter than 10 cells
C17_Short(row) == row = << >> \/ Len(row) < 10

\* the step the row at index k (0-based) is due
C17_Step(k) == IF C17_Short(Idx(table, k)) THEN 1 ELSE 2

\* the index the scan has reached after the rows examined
C17_Reached ==
    IF examined = << >> THEN HeaderIdx(table) + 1
    ELSE examined[Len(examined)] + C17_Step(examined[Len(examined)])

C17_Stepping ==
    /\ C17_Scanned =>
          /\ i = C17_Reached
          /\ \A k \in 1..Len(examined) :
                /\ examined[k] < Len(table)
                /\ examined[k] = IF k = 1 THEN HeaderIdx(table) + 1
                                 ELSE examined[k - 1] + C17_Step(examined[k - 1])
          /\ pc \in {"end", "done"} => i >= Len(table)
    /\ ~C17_Scanned =>
          /\ examined = << >>
          /\ cand \in CoscoEarlier
          /\ schedules = Emitted(cand)

(* C17: the row scan starts at the row after the header; each step reads   *)
(* row i as row1 and advances i by exactly 1 when row1 is empty or has     *)
(* fewer than 10 cells and by exactly 2 otherwise, HPX2 or not, emitted or *)
(* not; i strictly increases and the scan of every table terminates; a     *)
(* table of fewer than 3 rows or without a row containing 'Service' adds   *)
(* no record.                                                              *)
C17_RowStepping == [](C17_Stepping) /\ <>(pc = "done")

\* a scan finished after a step of 1 over a short row and a step of 2 over a
\* row of another service
C17_Witness ==
    /\ pc = "done"
    /\ Len(examined) = 2
    /\ examined[2] = examined[1] + 1
    /\ Idx(table, examined[2]) = CoscoEc3Row
    /\ i = examined[2] + 2

\* the indices read as row1
C18_Examined == {examined[k] : k \in 1..Len(examined)}

\* the row at index k was read as row2 of a pair
C18_ConsumedAsRow2(k) ==
    /\ k < Len(table)
    /\ (k - 1) \in C18_Examined
    /\ ~C17_Short(Idx(table, k - 1))

\* rows after the header
C18_RowsAfterHeader == Len(table) - (HeaderIdx(table) + 1)

(* C18: a row read as row2 of a pair is never read as row1, whatever it    *)
(* holds, so an HPX2 row right after a row1 of at least 10 cells gives no  *)
(* record; a table with n rows after the header gives at most ceil(n/2)    *)
(* records.                                                                *)
C18_Pairing ==
    /\ \A k \in 1..Len(table) : C18_ConsumedAsRow2(k) => k \notin C18_Examined
    /\ C17_Scanned =>
          /\ Len(C2_CoscoNew) <= Cardinality(C18_Examined)
          /\ 2 * Len(C2_CoscoNew) <= C18_RowsAfterHeader + 1

\* a complete HPX2 row was the row2 of an emitted pair and gave no record
C18_Witness ==
    /\ pc = "done"
    /\ table = <<CoscoHeaderRow, CoscoExampleRow1, CoscoExampleRow1>>
    /\ Len(C2_CoscoNew) = 1
    /\ examined = <<1>>

---------------------------------------------------------------------------
(* Claims about the session state of the dashboard                         *)

\* the run ended without an exception and with at least one record
C19_Succeeded(run) == ~run.raised /\ run.df # << >>

\* the finished runs that succeeded, by position
C19_Successes == {n \in 1..Len(runs) : C19_Succeeded(runs[n])}

\* the last of a non-empty set of positions
C19_Last(S) == CHOOSE n \in S : \A k \in S : k <= n

(* C19: over any sequence of Start Processing runs the stored dataset and  *)
(* the processed flag are written only by a run that ends without an       *)
(* exception and with at least one record: before the first such run the   *)
(* preview and export tabs are not enabled, and afterwards they show the   *)
(* dataset of the last such run, whatever runs raised or came out empty    *)
(* since.                                                                  *)
C19_SessionState ==
    IF C19_Successes = {}
    THEN ~TabsEnabled /\ session_state = [processed |-> FALSE, df |-> << >>]
    ELSE TabsEnabled /\ TabsDataset = runs[C19_Last(C19_Successes)].df

\* a successful run, then a run that raised and a run that came out empty
C19_Witness ==
    /\ Len(runs) = 3
    /\ C19_Succeeded(runs[1])
    /\ runs[2].raised
    /\ ~runs[3].raised /\ runs[3].df = << >>
    /\ TabsEnabled
    /\ TabsDataset = runs[1].df
=============================================================================
